---- MODULE Spec2Model ----
(***************************************************************************)
(* Model of the knowledge-graph builder of uit-web-scaper:                 *)
(*   modules/graph_builder.py      GraphBuilder (the operation queue)      *)
(*   modules/db_connector.py       Neo4jConnector (execution of a batch)   *)
(*   modules/knowledge_graph.py    KnowledgeGraph (the orchestrator)       *)
(*   modules/entity_processors/*   the four domain processors              *)
(* and of the effect the emitted Cypher statements (MERGE / MATCH / SET)   *)
(* have on a property-graph store.                                         *)
(***************************************************************************)
EXTENDS Integers, Sequences, FiniteSets, TLC

VARIABLES
    queries,      \* GraphBuilder.queries: the queue every processor appends to
    all_queries,  \* KnowledgeGraph.all_queries: the orchestrator's batch
    driver,       \* Neo4jConnector.driver is set (a connection is open)
    store,        \* the property graph held by the database
    ret,          \* what the last call returned
    last,         \* history: what the last call was given and did
    hist,         \* history: what happened since construction
    stream        \* the fragment stream of the input file being assembled

vars == <<queries, all_queries, driver, store, ret, last, hist, stream>>

----------------------------------------------------------------------------
(* Bounds of the model *)

\* number of orchestrator calls (process_*, build, clear) in one behaviour
MaxCalls == 3
\* number of GraphBuilder calls (create_*, execute, clear) in one behaviour of
\* SpecStore
MaxSteps == 2
\* longest batch the orchestrator accumulates
MaxBatch == 40

----------------------------------------------------------------------------
(* Small helpers *)

Range(s) == {s[i] : i \in DOMAIN s}

RECURSIVE Flatten(_)
Flatten(ss) == IF ss = <<>> THEN <<>> ELSE Head(ss) \o Flatten(Tail(ss))

----------------------------------------------------------------------------
(* Property mappings.  A Python dict is an insertion-ordered mapping: it is *)
(* modelled as a sequence of <<key, value>> pairs with distinct keys.       *)

Keys(properties) == [i \in DOMAIN properties |-> properties[i][1]]

KeySet(properties) == {properties[i][1] : i \in DOMAIN properties}

\* dict lookup properties[k], for k a key of the mapping
Lookup(properties, k) ==
    LET i == CHOOSE j \in DOMAIN properties : properties[j][1] = k
    IN  properties[i][2]

\* the dict as the parameter map handed to the driver
AsParams(properties) == [k \in KeySet(properties) |-> Lookup(properties, k)]


----------------------------------------------------------------------------
(* GraphBuilder: the statements it composes.  A statement template is kept *)
(* in structured form (what the f-string interpolates) next to its         *)
(* parameter map, as add_query stores {"query": ..., "params": ...}.       *)

\* create_node: MERGE (n:label {pk: $pk}) SET n.k = $k, ... for the other keys
NodeStatement(label, properties) ==
    LET primary_key == properties[1][1]
    IN  [query  |-> [stmt  |-> "MERGE_NODE",
                     label |-> label,
                     pk    |-> primary_key,
                     sets  |-> SelectSeq(Keys(properties),
                                         LAMBDA k : k # primary_key)],
         params |-> AsParams(properties)]

\* create_relationship: MATCH (a:..) MATCH (b:..) MERGE (a)-[r:type {..}]->(b)
RelStatement(from_label, from_property, from_value, to_label, to_property, to_value, relationship_type, relationship_properties) ==
    [query  |-> [stmt          |-> "MATCH_MERGE_REL",
                 from_label    |-> from_label,
                 from_property |-> from_property,
                 to_label      |-> to_label,
                 to_property   |-> to_property,
                 type          |-> relationship_type,
                 rprops        |-> Keys(relationship_properties)],
     params |-> [k \in {"from_value", "to_value"} \cup KeySet(relationship_properties) |->
                    IF k \in KeySet(relationship_properties)
                    THEN Lookup(relationship_properties, k)
                    ELSE IF k = "from_value" THEN from_value ELSE to_value]]

IsNodeOp(op) == op.query.stmt = "MERGE_NODE"
IsRelOp(op)  == op.query.stmt = "MATCH_MERGE_REL"

----------------------------------------------------------------------------
(* The store: nodes in creation order (a node's identity is its position),  *)
(* edges in creation order.  A node is [label, props], an edge is           *)
(* [from, to, type, props]; props maps the property names set to values.    *)

EmptyStore == [nodes |-> <<>>, edges |-> <<>>]

HasProp(props, k, v) == k \in DOMAIN props /\ props[k] = v

\* MatchNodes, were the label left out of the pattern
MatchNodes_AnyLabel(st, label, k, v) ==
    {i \in DOMAIN st.nodes : HasProp(st.nodes[i].props, k, v)}

\* the nodes (label {k: v}) matches
MatchNodes(st, label, k, v) ==
    {i \in DOMAIN st.nodes : st.nodes[i].label = label /\ HasProp(st.nodes[i].props, k, v)}

\* SetProps, were a property set only when the node has none (ON CREATE SET)
SetProps_KeepOld(props, sets, params) ==
    [k \in DOMAIN props \cup Range(sets) |->
        IF k \in DOMAIN props THEN props[k] ELSE params[k]]

\* SET n.k = $k for every k of sets: the property is added or overwritten
SetProps(props, sets, params) ==
    [k \in DOMAIN props \cup Range(sets) |->
        IF k \in Range(sets) THEN params[k] ELSE props[k]]

\* MergeNode, were the statement CREATE instead of MERGE
MergeNode_AlwaysCreate(st, label, pk, v) ==
    [st EXCEPT !.nodes = Append(@, [label |-> label, props |-> [k \in {pk} |-> v]])]

\* MERGE (n:label {pk: $pk}): the matching nodes, or one new node when none matches
MergeNode(st, label, pk, v) ==
    IF MatchNodes(st, label, pk, v) # {}
    THEN st
    ELSE [st EXCEPT !.nodes = Append(@, [label |-> label, props |-> [k \in {pk} |-> v]])]

ApplyNode(st, op) ==
    LET q       == op.query
        merged  == MergeNode(st, q.label, q.pk, op.params[q.pk])
        matched == MatchNodes(merged, q.label, q.pk, op.params[q.pk])
    IN  [merged EXCEPT !.nodes =
            [i \in DOMAIN merged.nodes |->
                IF i \in matched
                THEN [merged.nodes[i] EXCEPT !.props = SetProps(@, q.sets, op.params)]
                ELSE merged.nodes[i]]]

\* the edges a -[type {rprops}]-> b already in the store
MatchEdges(st, a, b, type, rprops, params) ==
    {i \in DOMAIN st.edges :
        /\ st.edges[i].from = a /\ st.edges[i].to = b /\ st.edges[i].type = type
        /\ \A k \in Range(rprops) : HasProp(st.edges[i].props, k, params[k])}

\* MERGE (a)-[r:type {rprops}]->(b) for one row (a, b)
MergeEdge(st, a, b, type, rprops, params) ==
    IF MatchEdges(st, a, b, type, rprops, params) # {}
    THEN st
    ELSE [st EXCEPT !.edges = Append(@, [from |-> a, to |-> b, type |-> type,
                                         props |-> [k \in Range(rprops) |-> params[k]]])]

\* the rows of MATCH (a) MATCH (b), in the order the store yields them
RECURSIVE MergeRows(_, _, _, _, _)
MergeRows(st, rows, type, rprops, params) ==
    IF rows = <<>> THEN st
    ELSE MergeRows(MergeEdge(st, Head(rows)[1], Head(rows)[2], type, rprops, params),
                   Tail(rows), type, rprops, params)

RowsOf(as, bs, n) ==
    LET all == [k \in 1..(n * n) |-> <<((k - 1) \div n) + 1, ((k - 1) % n) + 1>>]
    IN  SelectSeq(all, LAMBDA r : r[1] \in as /\ r[2] \in bs)

\* ApplyRel, were the endpoints MERGEd instead of MATCHed
ApplyRel_MergeEndpoints(st, op) ==
    LET q  == op.query
        s1 == MergeNode(st, q.from_label, q.from_property, op.params.from_value)
        s2 == MergeNode(s1, q.to_label, q.to_property, op.params.to_value)
        as == MatchNodes(s2, q.from_label, q.from_property, op.params.from_value)
        bs == MatchNodes(s2, q.to_label, q.to_property, op.params.to_value)
    IN  MergeRows(s2, RowsOf(as, bs, Len(s2.nodes)), q.type, q.rprops, op.params)

ApplyRel(st, op) ==
    LET q  == op.query
        as == MatchNodes(st, q.from_label, q.from_property, op.params.from_value)
        bs == MatchNodes(st, q.to_label, q.to_property, op.params.to_value)
    IN  MergeRows(st, RowsOf(as, bs, Len(st.nodes)), q.type, q.rprops, op.params)

\* session.run(q["query"], q["params"]) when it succeeds
Apply(st, op) == IF IsNodeOp(op) THEN ApplyNode(st, op) ELSE ApplyRel(st, op)

\* a sequence of statements run in order, every one succeeding
RECURSIVE ApplyAll(_, _)
ApplyAll(st, ops) ==
    IF ops = <<>> THEN st
    ELSE CHOOSE out \in {ApplyAll(s, Tail(ops)) : s \in {Apply(st, Head(ops))}} : TRUE

----------------------------------------------------------------------------
(* What a processor emits: the statements handed to create_node and         *)
(* create_relationship, in call order, and whether an exception ended it.   *)

Emit(ops) == [ops |-> ops, raised |-> FALSE]

Raise == [ops |-> <<>>, raised |-> TRUE]

\* r1 then r2: what follows an exception is never run
Then(r1, r2) ==
    IF r1.raised THEN r1 ELSE [ops |-> r1.ops \o r2.ops, raised |-> r2.raised]

When(cond, r) == IF cond THEN r ELSE Emit(<<>>)

\* a JSON value iterated by a for loop: a list, or a value that is not iterable
List(items) == [iterable |-> TRUE, items |-> items]

NotIterable == [iterable |-> FALSE, items |-> <<>>]

\* create_node(label, {key: value})
Node1(label, key, value) == NodeStatement(label, <<<<key, value>>>>)

\* create_relationship without relationship properties
Rel(from_label, from_property, from_value, to_label, to_property, to_value, type) ==
    RelStatement(from_label, from_property, from_value,
                 to_label, to_property, to_value, type, <<>>)

\* the optional properties of a node, in the order the code adds them
OptProps(pairs) == SelectSeq(pairs, LAMBDA kv : kv[2] # "")

----------------------------------------------------------------------------
(* The input of a processor: a file that is missing, that is not JSON, or   *)
(* that holds a JSON value.  load_data answers {} for the first two.        *)

EmptyData == [shape |-> "dict", keys |-> {}]

\* load_data (the same in the four processors)
LoadData(input) == IF input.file = "ok" THEN input.data ELSE EmptyData

\* Python's "not data": an empty dict or an empty list
IsFalsy(data) ==
    \/ data.shape = "dict" /\ data.keys = {}
    \/ data.shape = "list" /\ data.items = <<>>

----------------------------------------------------------------------------
(* The texts of the model and what the string functions and regular         *)
(* expressions of the processors compute on them.                           *)

LongDeptText ==
    "Faculty of Computer Science: Dr Nguyen Van An (an.nv@uit.edu.vn), Tran Thi Binh (binh.tt@uit.edu.vn), office@uit.edu.vn, extra@uit.edu.vn"

\* a free text of 130 characters naming three people and one address
StaffText ==
    "Bo mon He thong thong tin gom cac giang vien: Le Van Cuong, Pham Thi Dung va Hoang Minh Duc; lien he: httt@uit.edu.vn de biet them"

\* two texts of 100 and of 101 characters
Text100 ==
    "Bo mon Mang may tinh: lien he thay Le Van Cuong qua thu cuong.lv@uit.edu.vn hoac den phong E3.1, toa"

Text101 ==
    "Bo mon Mang may tinh: lien he thay Le Van Cuong qua thu cuong.lv@uit.edu.vn hoac den phong E3.1, toan"

\* len(text) > 100, with the >= of a threshold that includes 100
LongerThan100_Inclusive(text) == Len(text) >= 100

\* len(text) > 100
LongerThan100(text) == Len(text) > 100

\* text.lower() == "general"
LowerIsGeneral(text) == text \in {"general", "General", "GENERAL"}

\* text.strip()
Strip(text) ==
    CASE text = "  UIT  " -> "UIT"
      [] text = "   "     -> ""
      [] OTHER            -> text

\* any(title in text for title in ['GS', 'PGS', 'TS', 'ThS', 'CN'])
MentionsTitle(text) == text = "PGS TS"

\* '@' in text
HasAt(text) ==
    text \in {"Email: jane@x.edu", "Email: jane@x.edu, j.doe@y.org", "Email: info@uit.edu.vn",
              LongDeptText}

\* re.search(r'[A-Z]{2,}\d{3,}', text): the match, "" when there is none
CourseCode(text) == IF text \in {"CS101 Intro", "Requires CS101"} THEN "CS101" ELSE ""

\* re.sub(r'[A-Z]{2,}\d{3,}', '', text.strip()).strip() when a code was found,
\* text.strip() otherwise
CourseName(text) ==
    CASE text = "CS101 Intro"    -> "Intro"
      [] text = "Requires CS101" -> "Requires"
      [] OTHER                   -> Strip(text)

\* 'credit' in text.lower() (or the Vietnamese keyword)
MentionsCredit(text) == text = "3 credits"

\* re.search(r'\d+', text): the match, "" when there is none
CreditMatch(text) ==
    CASE text = "3 credits"                         -> "3"
      [] text \in {"CS101 Intro", "Requires CS101"} -> "101"
      [] text = "Tel: (028) 372 52002"              -> "028"
      [] OTHER                                      -> ""

\* 'lecturer' in text.lower() (or the Vietnamese keyword)
MentionsLecturer(text) == FALSE

\* [name.strip() for name in text.replace('Instructor:', '').strip().split(',')]
InstructorNames(text) ==
    IF text = "Instructor: Jane Doe, Bob Lee" THEN <<"Jane Doe", "Bob Lee">>
    ELSE <<Strip(text)>>

\* the Vietnamese prerequisite keyword in text.lower()
MentionsPrerequisite(text) == FALSE

\* re.findall(r'[A-Z]{2,}\d{3,}', text)
PrereqCodes(text) ==
    IF text \in {"CS101 Intro", "Requires CS101"} THEN <<"CS101">> ELSE <<>>

\* re.findall(r'([A-Z][a-z]+\s[A-Z][a-z]+(?:\s[A-Z][a-z]+)?)', text)
FacultyMatches(text) ==
    CASE text = LongDeptText -> <<"Computer Science", "Dr Nguyen Van", "Tran Thi Binh">>
      [] text = StaffText -> <<"Le Van Cuong", "Pham Thi Dung", "Hoang Minh Duc">>
      [] text \in {Text100, Text101} -> <<"Le Van Cuong">>
      [] text = "Khoa Cong nghe Phan mem" -> <<"Khoa Cong">>
      [] text = "University of Information Technology" -> <<"Information Technology">>
      [] text = "Instructor: Jane Doe, Bob Lee" -> <<"Jane Doe", "Bob Lee">>
      [] text \in {"Jane Doe", "Bob Lee"} -> <<text>>
      [] OTHER -> <<>>

\* len(name.split()) for a name FacultyMatches yields
NameWords(name) ==
    IF name \in {"Dr Nguyen Van", "Tran Thi Binh", "Le Van Cuong", "Pham Thi Dung",
                 "Hoang Minh Duc"}
    THEN 3 ELSE 2

\* re.findall(r'([a-zA-Z0-9._%+-]+@[a-zA-Z0-9.-]+\.[a-zA-Z]{2,})', text)
EmailMatches(text) ==
    CASE text = LongDeptText ->
            <<"an.nv@uit.edu.vn", "binh.tt@uit.edu.vn", "office@uit.edu.vn", "extra@uit.edu.vn">>
      [] text = StaffText -> <<"httt@uit.edu.vn">>
      [] text \in {Text100, Text101} -> <<"cuong.lv@uit.edu.vn">>
      [] text = "Email: info@uit.edu.vn" -> <<"info@uit.edu.vn">>
      [] text = "Email: jane@x.edu" -> <<"jane@x.edu">>
      [] OTHER -> <<>>

\* [w.strip('.,;:()[]{}"') for w in text.split() if '@' in w and '.' in w]
EmailWords(text) ==
    IF text = "Email: jane@x.edu, j.doe@y.org"
    THEN <<"jane@x.edu", "j.doe@y.org">>
    ELSE EmailMatches(text)

\* 'tel' in text.lower() or 'phone' in text.lower()
MentionsPhone(text) == text = "Tel: (028) 372 52002"

\* [m.strip() for m in re.findall(r'\+?[\d\s\-\(\)]{7,}', text)]
PhoneMatches(text) == IF text = "Tel: (028) 372 52002" THEN <<"(028) 372 52002">> ELSE <<>>

\* len(text.split()) > 3 and not text.startswith('http')
LooksLikeAddress(text) ==
    text \in {"Khu pho 6, Linh Trung, Thu Duc, TP HCM", "Khoa Cong nghe Phan mem",
              "University of Information Technology", "Tel: (028) 372 52002",
              "Instructor: Jane Doe, Bob Lee", LongDeptText}

\* 'Khoa' in text (the department keyword)
MentionsKhoa(text) == text = "Khoa Cong nghe Phan mem"

----------------------------------------------------------------------------
(* FacultyProcessor *)

\* Backfill, were the new department written to every entry of the list
RECURSIVE Backfill_Overwrite(_, _)
Backfill_Overwrite(list, department) ==
    IF list = <<>> THEN <<>>
    ELSE <<[Head(list) EXCEPT !.department = department]>>
         \o Backfill_Overwrite(Tail(list), department)

\* the loop over the entries already in the list: an entry without a
\* department gets the new one
RECURSIVE Backfill(_, _)
Backfill(list, department) ==
    IF list = <<>> THEN <<>>
    ELSE <<IF Head(list).department = ""
           THEN [Head(list) EXCEPT !.department = department]
           ELSE Head(list)>> \o Backfill(Tail(list), department)

\* faculty_list, current_faculty (its place in the list, 0 for None) and
\* current_department ("" for None) before the first item
FacultyStart == [list |-> <<>>, current |-> 0, department |-> ""]

\* FacultyUpdate with the research interest replacing the list
FacultyUpdate_Overwrite(faculty, text, types) ==
    IF "title" \in types \/ MentionsTitle(text)
    THEN [faculty EXCEPT !.title = Strip(text)]
    ELSE IF {"research_interest", "research"} \cap types # {}
    THEN [faculty EXCEPT !.research_interests.items = <<Strip(text)>>]
    ELSE IF "email" \in types \/ HasAt(text)
    THEN IF HasAt(text) /\ EmailWords(text) # <<>>
         THEN [faculty EXCEPT !.email = EmailWords(text)[Len(EmailWords(text))]]
         ELSE faculty
    ELSE IF "phone" \in types \/ MentionsPhone(text)
    THEN IF PhoneMatches(text) # <<>>
         THEN [faculty EXCEPT !.phone = PhoneMatches(text)[1]]
         ELSE faculty
    ELSE faculty

\* the branch "elif current_faculty": one field of the open entry is updated
FacultyUpdate(faculty, text, types) ==
    IF "title" \in types \/ MentionsTitle(text)
    THEN [faculty EXCEPT !.title = Strip(text)]
    ELSE IF {"research_interest", "research"} \cap types # {}
    THEN [faculty EXCEPT !.research_interests.items = Append(@, Strip(text))]
    ELSE IF "email" \in types \/ HasAt(text)
    THEN IF HasAt(text) /\ EmailWords(text) # <<>>
         THEN [faculty EXCEPT !.email = EmailWords(text)[Len(EmailWords(text))]]
         ELSE faculty
    ELSE IF "phone" \in types \/ MentionsPhone(text)
    THEN IF PhoneMatches(text) # <<>>
         THEN [faculty EXCEPT !.phone = PhoneMatches(text)[1]]
         ELSE faculty
    ELSE faculty

\* FacultyStep opening the entry without the current department
FacultyStep_Unseeded(st, item) ==
    LET text  == item.text
        types == item.semantic_types
    IN  IF {"faculty_name", "person_name"} \cap types # {}
        THEN [st EXCEPT !.list = Append(@, [name               |-> Strip(text),
                                            title              |-> "",
                                            department         |-> "",
                                            research_interests |-> List(<<>>),
                                            email              |-> "",
                                            phone              |-> ""]),
                        !.current = Len(st.list) + 1]
        ELSE IF "department" \in types \/ MentionsKhoa(text)
        THEN [st EXCEPT !.department = Strip(text),
                        !.list = Backfill(@, Strip(text))]
        ELSE IF st.current # 0
        THEN [st EXCEPT !.list[st.current] = FacultyUpdate(@, text, types)]
        ELSE st

\* FacultyStep updating the first entry of the list, not the open one
FacultyStep_UpdatesFirst(st, item) ==
    LET text  == item.text
        types == item.semantic_types
    IN  IF {"faculty_name", "person_name"} \cap types # {}
        THEN [st EXCEPT !.list = Append(@, [name               |-> Strip(text),
                                            title              |-> "",
                                            department         |-> st.department,
                                            research_interests |-> List(<<>>),
                                            email              |-> "",
                                            phone              |-> ""]),
                        !.current = Len(st.list) + 1]
        ELSE IF "department" \in types \/ MentionsKhoa(text)
        THEN [st EXCEPT !.department = Strip(text),
                        !.list = Backfill(@, Strip(text))]
        ELSE IF st.current # 0
        THEN [st EXCEPT !.list[1] = FacultyUpdate(@, text, types)]
        ELSE st

\* one iteration of the loop over the items of a fragment stream
FacultyStep(st, item) ==
    LET text  == item.text
        types == item.semantic_types
    IN  IF {"faculty_name", "person_name"} \cap types # {}
        THEN [st EXCEPT !.list = Append(@, [name               |-> Strip(text),
                                            title              |-> "",
                                            department         |-> st.department,
                                            research_interests |-> List(<<>>),
                                            email              |-> "",
                                            phone              |-> ""]),
                        !.current = Len(st.list) + 1]
        ELSE IF "department" \in types \/ MentionsKhoa(text)
        THEN [st EXCEPT !.department = Strip(text),
                        !.list = Backfill(@, Strip(text))]
        ELSE IF st.current # 0
        THEN [st EXCEPT !.list[st.current] = FacultyUpdate(@, text, types)]
        ELSE st

RECURSIVE FacultyFold(_, _)
FacultyFold(st, fragments) ==
    IF fragments = <<>> THEN st
    ELSE FacultyFold(FacultyStep(st, Head(fragments)), Tail(fragments))

\* extract_faculty_info: on a list of faculty items the six fields of each,
\* on a dict the entries assembled from its fragment stream
ExtractFacultyInfo(data) ==
    IF data.shape = "list"
    THEN [i \in DOMAIN data.items |->
            [name               |-> data.items[i].name,
             title              |-> data.items[i].title,
             department         |-> data.items[i].department,
             research_interests |-> data.items[i].research_interests,
             email              |-> data.items[i].email,
             phone              |-> data.items[i].phone]]
    ELSE IF "items" \in data.keys
    THEN FacultyFold(FacultyStart, data.items).list
    ELSE <<>>

RECURSIVE FacultyInterests(_, _)
FacultyInterests(faculty_name, interests) ==
    IF interests = <<>> THEN <<>>
    ELSE (IF Head(interests) # ""
          THEN << Node1("ResearchInterest", "name", Head(interests)),
                  Rel("Faculty", "name", faculty_name,
                      "ResearchInterest", "name", Head(interests), "INTERESTED_IN") >>
          ELSE <<>>)
         \o FacultyInterests(faculty_name, Tail(interests))

\* FacultyRecord with the email handled before the research interests
FacultyRecord_EmailFirst(faculty) ==
    When(faculty.name # "",
      Then(Emit(<< NodeStatement("Faculty",
                      <<<<"name", faculty.name>>>> \o OptProps(<<<<"title", faculty.title>>>>)) >>),
      Then(When(faculty.department # "",
             Emit(<< Node1("Department", "name", faculty.department),
                     Rel("Faculty", "name", faculty.name,
                         "Department", "name", faculty.department, "BELONGS_TO"),
                     Rel("Department", "name", faculty.department,
                         "Faculty", "name", faculty.name, "HAS_MEMBER") >>)),
      Then(When(faculty.email # "",
             Emit(<< Node1("Email", "address", faculty.email),
                     Rel("Faculty", "name", faculty.name,
                         "Email", "address", faculty.email, "HAS_EMAIL") >>)),
      Then(IF faculty.research_interests.iterable
           THEN Emit(FacultyInterests(faculty.name, faculty.research_interests.items))
           ELSE Raise,
           When(faculty.phone # "",
             Emit(<< Node1("PhoneNumber", "number", faculty.phone),
                     Rel("Faculty", "name", faculty.name,
                         "PhoneNumber", "number", faculty.phone, "HAS_PHONE") >>)))))))

\* the body of the loop of FacultyProcessor.process for one faculty
FacultyRecord(faculty) ==
    When(faculty.name # "",
      Then(Emit(<< NodeStatement("Faculty",
                      <<<<"name", faculty.name>>>> \o OptProps(<<<<"title", faculty.title>>>>)) >>),
      Then(When(faculty.department # "",
             Emit(<< Node1("Department", "name", faculty.department),
                     Rel("Faculty", "name", faculty.name,
                         "Department", "name", faculty.department, "BELONGS_TO"),
                     Rel("Department", "name", faculty.department,
                         "Faculty", "name", faculty.name, "HAS_MEMBER") >>)),
      Then(IF faculty.research_interests.iterable
           THEN Emit(FacultyInterests(faculty.name, faculty.research_interests.items))
           ELSE Raise,
      Then(When(faculty.email # "",
             Emit(<< Node1("Email", "address", faculty.email),
                     Rel("Faculty", "name", faculty.name,
                         "Email", "address", faculty.email, "HAS_EMAIL") >>)),
           When(faculty.phone # "",
             Emit(<< Node1("PhoneNumber", "number", faculty.phone),
                     Rel("Faculty", "name", faculty.name,
                         "PhoneNumber", "number", faculty.phone, "HAS_PHONE") >>)))))))

RECURSIVE FacultyLoop(_)
FacultyLoop(faculty_list) ==
    IF faculty_list = <<>> THEN Emit(<<>>)
    ELSE Then(FacultyRecord(Head(faculty_list)), FacultyLoop(Tail(faculty_list)))

\* FacultyProcessor.process: what it appends to the queue
FacultyProcess(input) ==
    LET data == LoadData(input)
    IN  IF IsFalsy(data) THEN Emit(<<>>) ELSE FacultyLoop(ExtractFacultyInfo(data))

----------------------------------------------------------------------------
(* CourseProcessor *)

\* course_list, current_course (its place in the list, 0 for None) and
\* current_department ("" for None) before the first item
CourseStart == [list |-> <<>>, current |-> 0, department |-> ""]

\* the branch "elif current_course": one field of the open entry is updated
CourseUpdate(course, text, types) ==
    IF {"course_description", "description"} \cap types # {}
    THEN [course EXCEPT !.description = Strip(text)]
    ELSE IF "credits" \in types \/ MentionsCredit(text)
    THEN IF CreditMatch(text) # ""
         THEN [course EXCEPT !.credits = CreditMatch(text)]
         ELSE course
    ELSE IF "instructor" \in types \/ MentionsLecturer(text)
    THEN [course EXCEPT !.instructors.items = @ \o InstructorNames(text)]
    ELSE IF "prerequisite" \in types \/ MentionsPrerequisite(text)
    THEN [course EXCEPT !.prerequisites.items = @ \o PrereqCodes(text)]
    ELSE course

\* CourseStep without the update of the entries already in the list
CourseStep_NoBackfill(st, item) ==
    LET text  == item.text
        types == item.semantic_types
    IN  IF {"course_code", "course_name"} \cap types # {}
        THEN [st EXCEPT !.list = Append(@, [code          |-> CourseCode(text),
                                            name          |-> CourseName(text),
                                            description   |-> "",
                                            credits       |-> "",
                                            department    |-> st.department,
                                            instructors   |-> List(<<>>),
                                            prerequisites |-> List(<<>>)]),
                        !.current = Len(st.list) + 1]
        ELSE IF "department" \in types \/ MentionsKhoa(text)
        THEN [st EXCEPT !.department = Strip(text)]
        ELSE IF st.current # 0
        THEN [st EXCEPT !.list[st.current] = CourseUpdate(@, text, types)]
        ELSE st

\* one iteration of the loop over the items of a fragment stream
CourseStep(st, item) ==
    LET text  == item.text
        types == item.semantic_types
    IN  IF {"course_code", "course_name"} \cap types # {}
        THEN [st EXCEPT !.list = Append(@, [code          |-> CourseCode(text),
                                            name          |-> CourseName(text),
                                            description   |-> "",
                                            credits       |-> "",
                                            department    |-> st.department,
                                            instructors   |-> List(<<>>),
                                            prerequisites |-> List(<<>>)]),
                        !.current = Len(st.list) + 1]
        ELSE IF "department" \in types \/ MentionsKhoa(text)
        THEN [st EXCEPT !.department = Strip(text),
                        !.list = Backfill(@, Strip(text))]
        ELSE IF st.current # 0
        THEN [st EXCEPT !.list[st.current] = CourseUpdate(@, text, types)]
        ELSE st

RECURSIVE CourseFold(_, _)
CourseFold(st, fragments) ==
    IF fragments = <<>> THEN st
    ELSE CourseFold(CourseStep(st, Head(fragments)), Tail(fragments))

\* extract_course_info: on a list of course items the seven fields of each,
\* on a dict the entries assembled from its fragment stream
ExtractCourseInfo(data) ==
    IF data.shape = "list"
    THEN [i \in DOMAIN data.items |->
            [code          |-> data.items[i].code,
             name          |-> data.items[i].name,
             description   |-> data.items[i].description,
             credits       |-> data.items[i].credits,
             department    |-> data.items[i].department,
             instructors   |-> data.items[i].instructors,
             prerequisites |-> data.items[i].prerequisites]]
    ELSE IF "items" \in data.keys
    THEN CourseFold(CourseStart, data.items).list
    ELSE <<>>

RECURSIVE CourseInstructors(_, _)
CourseInstructors(course_identifier, instructors) ==
    IF instructors = <<>> THEN <<>>
    ELSE (IF Head(instructors) # ""
          THEN << Node1("Faculty", "name", Head(instructors)),
                  Rel("Faculty", "name", Head(instructors),
                      "Course", "name", course_identifier, "TEACHES"),
                  Rel("Course", "name", course_identifier,
                      "Faculty", "name", Head(instructors), "TAUGHT_BY") >>
          ELSE <<>>)
         \o CourseInstructors(course_identifier, Tail(instructors))

\* CoursePrerequisites without the upsert of the prerequisite course
RECURSIVE CoursePrerequisites_LinkOnly(_, _)
CoursePrerequisites_LinkOnly(course_identifier, prerequisites) ==
    IF prerequisites = <<>> THEN <<>>
    ELSE (IF Head(prerequisites) # ""
          THEN << Rel("Course", "name", Head(prerequisites),
                      "Course", "name", course_identifier, "IS_PREREQUISITE_FOR") >>
          ELSE <<>>)
         \o CoursePrerequisites_LinkOnly(course_identifier, Tail(prerequisites))

RECURSIVE CoursePrerequisites(_, _)
CoursePrerequisites(course_identifier, prerequisites) ==
    IF prerequisites = <<>> THEN <<>>
    ELSE (IF Head(prerequisites) # ""
          THEN << Node1("Course", "name", Head(prerequisites)),
                  Rel("Course", "name", Head(prerequisites),
                      "Course", "name", course_identifier, "IS_PREREQUISITE_FOR") >>
          ELSE <<>>)
         \o CoursePrerequisites(course_identifier, Tail(prerequisites))

\* CourseIdentifier preferring the name to the code
CourseIdentifier_NameFirst(course) == IF course.name # "" THEN course.name ELSE course.code

\* course_code if course_code else course_name
CourseIdentifier(course) == IF course.code # "" THEN course.code ELSE course.name

\* the body of the loop of CourseProcessor.process for one course
CourseRecord(course) ==
    LET course_identifier == CourseIdentifier(course)
    IN  When(course_identifier # "",
          Then(Emit(<< NodeStatement("Course",
                          <<<<"name", course_identifier>>>>
                          \o (IF course.name # "" /\ course.code # ""
                              THEN <<<<"title", course.name>>>> ELSE <<>>)
                          \o OptProps(<< <<"description", course.description>>,
                                         <<"credits", course.credits>> >>)) >>),
          Then(When(course.department # "",
                 Emit(<< Node1("Department", "name", course.department),
                         Rel("Course", "name", course_identifier,
                             "Department", "name", course.department, "BELONGS_TO"),
                         Rel("Department", "name", course.department,
                             "Course", "name", course_identifier, "OFFERS_COURSE") >>)),
          Then(IF course.instructors.iterable
               THEN Emit(CourseInstructors(course_identifier, course.instructors.items))
               ELSE Raise,
               IF course.prerequisites.iterable
               THEN Emit(CoursePrerequisites(course_identifier, course.prerequisites.items))
               ELSE Raise))))

RECURSIVE CourseLoop(_)
CourseLoop(course_list) ==
    IF course_list = <<>> THEN Emit(<<>>)
    ELSE Then(CourseRecord(Head(course_list)), CourseLoop(Tail(course_list)))

\* CourseProcessor.process: what it appends to the queue
CourseProcess(input) ==
    LET data == LoadData(input)
    IN  IF IsFalsy(data) THEN Emit(<<>>) ELSE CourseLoop(ExtractCourseInfo(data))

----------------------------------------------------------------------------
(* ContactProcessor *)

UniversityName == "University of Information Technology"

\* one loop "for x in xs": node, link from the department, link from the university
RECURSIVE ContactItems(_, _, _, _, _)
ContactItems(dept_name, items, label, key, type) ==
    IF items = <<>> THEN <<>>
    ELSE (IF Head(items) # ""
          THEN << Node1(label, key, Head(items)),
                  Rel("Department", "name", dept_name, label, key, Head(items), type) >>
               \o (IF LowerIsGeneral(dept_name)
                   THEN << Rel("University", "name", UniversityName,
                               label, key, Head(items), type) >>
                   ELSE <<>>)
          ELSE <<>>)
         \o ContactItems(dept_name, Tail(items), label, key, type)

ContactLoop(dept_name, xs, label, key, type) ==
    IF xs.iterable THEN Emit(ContactItems(dept_name, xs.items, label, key, type)) ELSE Raise

RECURSIVE HeuristicFaculty(_, _)
HeuristicFaculty(dept_name, faculty_matches) ==
    IF faculty_matches = <<>> THEN <<>>
    ELSE (IF NameWords(Head(faculty_matches)) >= 2
          THEN << Node1("Faculty", "name", Head(faculty_matches)),
                  Rel("Faculty", "name", Head(faculty_matches),
                      "Department", "name", dept_name, "BELONGS_TO"),
                  Rel("Department", "name", dept_name,
                      "Faculty", "name", Head(faculty_matches), "HAS_MEMBER") >>
          ELSE <<>>)
         \o HeuristicFaculty(dept_name, Tail(faculty_matches))

\* for i, email in enumerate(email_matches): if i < len(faculty_matches)
HeuristicEmails(faculty_matches, email_matches) ==
    Flatten([i \in DOMAIN email_matches |->
        IF i <= Len(faculty_matches)
        THEN << Node1("Email", "address", email_matches[i]),
                Rel("Faculty", "name", faculty_matches[i],
                    "Email", "address", email_matches[i], "HAS_EMAIL") >>
        ELSE <<>>])

\* the body of the loop over data['departments'] for one department
ContactDepartment(dept_info) ==
    LET dept_name == dept_info.name
    IN  Then(Emit(<< Node1("Department", "name", dept_name),
                     Rel("Department", "name", dept_name,
                         "University", "name", UniversityName, "BELONGS_TO"),
                     Rel("University", "name", UniversityName,
                         "Department", "name", dept_name, "HAS_DEPARTMENT") >>),
        Then(ContactLoop(dept_name, dept_info.emails, "Email", "address", "HAS_CONTACT_EMAIL"),
        Then(ContactLoop(dept_name, dept_info.phones, "PhoneNumber", "number", "HAS_CONTACT_PHONE"),
        Then(ContactLoop(dept_name, dept_info.addresses, "Address", "value", "HAS_LOCATION"),
             When(LongerThan100(dept_name),
               Emit(HeuristicFaculty(dept_name, FacultyMatches(dept_name))
                    \o HeuristicEmails(FacultyMatches(dept_name), EmailMatches(dept_name))))))))

RECURSIVE ContactDepartments(_)
ContactDepartments(departments) ==
    IF departments = <<>> THEN Emit(<<>>)
    ELSE Then(ContactDepartment(Head(departments)), ContactDepartments(Tail(departments)))

\* the try block of ContactProcessor.process
ContactTry(data) ==
    Then(Emit(<< Node1("University", "name", UniversityName) >>),
         When(data.shape = "dict" /\ "departments" \in data.keys,
              ContactDepartments(data.departments)))

\* ContactProcessor.process: what it appends to the queue.  Its own except
\* clause logs the exception, so the call itself never raises.
ContactProcess(input) ==
    LET data == LoadData(input)
    IN  IF IsFalsy(data) THEN Emit(<<>>) ELSE ContactTry(data)

----------------------------------------------------------------------------
(* GeneralProcessor *)

DefaultWebsite == "https://www.uit.edu.vn"

\* the university_info extract_university_info starts from ("" stands for None)
DefaultUniversityInfo ==
    [name          |-> UniversityName,
     description   |-> "",
     website       |-> DefaultWebsite,
     emails        |-> <<>>,
     phone_numbers |-> <<>>,
     addresses     |-> <<>>,
     departments   |-> <<>>,
     programs      |-> <<>>]

\* "if x not in xs: xs.append(x)"
AppendNew(xs, x) == IF x \in Range(xs) THEN xs ELSE Append(xs, x)

RECURSIVE AppendAllNew(_, _)
AppendAllNew(xs, ys) ==
    IF ys = <<>> THEN xs
    ELSE AppendAllNew(IF Head(ys) # "" THEN AppendNew(xs, Head(ys)) ELSE xs, Tail(ys))

\* one iteration of the loop over the items in extract_university_info
UniversityInfoStep(info, item) ==
    LET text  == item.text
        types == item.semantic_types
        i1 == IF {"university_name", "university"} \cap types # {}
              THEN [info EXCEPT !.name = Strip(text)]
              ELSE IF {"university_description", "description"} \cap types # {}
                   THEN [info EXCEPT !.description = Strip(text)]
                   ELSE info
        i2 == IF "email" \in types \/ EmailWords(text) # <<>>
              THEN [i1 EXCEPT !.emails = AppendAllNew(@, EmailWords(text))]
              ELSE i1
        i3 == IF "phone" \in types \/ MentionsPhone(text)
              THEN [i2 EXCEPT !.phone_numbers = AppendAllNew(@, PhoneMatches(text))]
              ELSE i2
        i4 == IF {"address", "location"} \cap types # {} /\ LooksLikeAddress(text)
              THEN [i3 EXCEPT !.addresses = AppendNew(@, text)]
              ELSE i3
        i5 == IF "department" \in types \/ MentionsKhoa(text)
              THEN [i4 EXCEPT !.departments =
                        Append(@, [name        |-> Strip(text),
                                   description |-> "",
                                   website     |-> IF item.link_urls # <<>>
                                                   THEN item.link_urls[1] ELSE ""])]
              ELSE i4
    IN  IF "program" \in types
        THEN [i5 EXCEPT !.programs =
                  Append(@, [name |-> Strip(text), description |-> "", level |-> ""])]
        ELSE i5

RECURSIVE UniversityInfoFold(_, _)
UniversityInfoFold(info, items) ==
    IF items = <<>> THEN info
    ELSE UniversityInfoFold(UniversityInfoStep(info, Head(items)), Tail(items))

\* extract_university_info
ExtractUniversityInfo(data) ==
    IF data.shape = "dict" /\ "items" \in data.keys
    THEN UniversityInfoFold(DefaultUniversityInfo, data.items)
    ELSE DefaultUniversityInfo

\* one loop over the university's emails, phone numbers or addresses
UniversityContacts(name, xs, label, key, type) ==
    Flatten([i \in DOMAIN xs |->
        IF xs[i] # ""
        THEN << Node1(label, key, xs[i]),
                Rel("University", "name", name, label, key, xs[i], type) >>
        ELSE <<>>])

\* the loop over university_info['departments'] or ['programs']
UniversityParts(name, parts, label, third, type) ==
    Flatten([i \in DOMAIN parts |->
        IF parts[i].name # ""
        THEN << NodeStatement(label,
                    <<<<"name", parts[i].name>>>>
                    \o OptProps(<< <<"description", parts[i].description>>,
                                   <<third, parts[i][third]>> >>)),
                Rel("University", "name", name, label, "name", parts[i].name, type) >>
        ELSE <<>>])

\* GeneralNoData, were the processor to return at once as the other three do
GeneralNoData_Nothing == <<>>

\* what GeneralProcessor.process emits when load_data gave nothing:
\* "Create a default university node even if no data is available"
GeneralNoData == << Node1("University", "name", UniversityName) >>

\* what GeneralProcessor.process emits for loaded data
GeneralData(data) ==
    LET info == ExtractUniversityInfo(data)
    IN  << NodeStatement("University",
               <<<<"name", info.name>>>>
               \o OptProps(<< <<"description", info.description>>,
                              <<"website", info.website>> >>)) >>
        \o UniversityContacts(info.name, info.emails, "Email", "address", "HAS_CONTACT_EMAIL")
        \o UniversityContacts(info.name, info.phone_numbers, "PhoneNumber", "number",
                              "HAS_CONTACT_PHONE")
        \o UniversityContacts(info.name, info.addresses, "Address", "value", "HAS_LOCATION")
        \o UniversityParts(info.name, info.departments, "Department", "website",
                           "HAS_DEPARTMENT")
        \o UniversityParts(info.name, info.programs, "Program", "level", "OFFERS_PROGRAM")

\* GeneralProcessor.process: what it appends to the queue
GeneralProcess(input) ==
    LET data == LoadData(input)
    IN  IF IsFalsy(data) THEN Emit(GeneralNoData) ELSE Emit(GeneralData(data))

----------------------------------------------------------------------------
(* Queue entries.  add_query appends a new dict; list.extend copies         *)
(* references, so one dict may sit in several lists.  An entry carries the  *)
(* identity of its dict (id) next to the statement.                         *)

Entry(id, statement) ==
    [id |-> id, query |-> statement.query, params |-> statement.params]

Statement(entry) == [query |-> entry.query, params |-> entry.params]


Ids(entries) == {entries[i].id : i \in DOMAIN entries}

\* the entries add_query makes for the statements ops, the first with identity first
Entries(ops, first) == [i \in DOMAIN ops |-> Entry(first + i - 1, ops[i])]

----------------------------------------------------------------------------
(* Neo4jConnector *)

\* what connect() can come to: the driver is made and verified ("open");
\* GraphDatabase.driver raises and self.driver stays None ("none"); the driver
\* is assigned but verify_connectivity raises ("broken": set, yet unusable)
ConnectOutcomes == {"open", "none", "broken"}

\* which queries of a batch of n fail in session.run: any of the first two, or all
FailSets(n) == {f \cap (1..n) : f \in SUBSET (1..2)} \cup {1..n}

\* ExecuteCount, were every query run counted
ExecuteCount_Attempted(n, i, fails) == n

\* execute_queries: successful_queries, counted as the loop counts it
RECURSIVE ExecuteCount(_, _, _)
ExecuteCount(n, i, fails) ==
    IF i > n THEN 0
    ELSE (IF i \in fails THEN 0 ELSE 1) + ExecuteCount(n, i + 1, fails)

\* ExecuteStore, were the loop to end at the first query that fails
RECURSIVE ExecuteStore_AbortOnFailure(_, _, _, _)
ExecuteStore_AbortOnFailure(st, batch, i, fails) ==
    IF i > Len(batch) \/ i \in fails THEN st
    ELSE CHOOSE out \in {ExecuteStore_AbortOnFailure(s, batch, i + 1, fails) :
                            s \in {Apply(st, batch[i])}} : TRUE

\* execute_queries: the store after the loop; a failed query changes nothing
\* (each intermediate store is bound as a value before the loop goes on)
RECURSIVE ExecuteStore(_, _, _, _)
ExecuteStore(st, batch, i, fails) ==
    IF i > Len(batch) THEN st
    ELSE CHOOSE out \in {ExecuteStore(s, batch, i + 1, fails) :
                            s \in {IF i \in fails THEN st ELSE Apply(st, batch[i])}} : TRUE

----------------------------------------------------------------------------
(* The inputs the model feeds the processors *)

Missing == [file |-> "missing", data |-> EmptyData]

Malformed == [file |-> "malformed", data |-> EmptyData]

OkList(items) == [file |-> "ok", data |-> [shape |-> "list", items |-> items]]

JaneDoe ==
    [name |-> "Jane Doe", title |-> "Professor", department |-> "CS",
     research_interests |-> List(<<"AI">>), email |-> "jane@x.edu", phone |-> ""]

\* a record whose research_interests is a number: the loop over it raises
BadInterests ==
    [name |-> "Bob Lee", title |-> "", department |-> "CS",
     research_interests |-> NotIterable, email |-> "", phone |-> ""]

NoName ==
    [name |-> "", title |-> "Dr", department |-> "CS",
     research_interests |-> List(<<"ML">>), email |-> "", phone |-> "0123"]

\* a record with a phone number and nothing else
PhoneOnly ==
    [name |-> "Bob Lee", title |-> "", department |-> "",
     research_interests |-> List(<<>>), email |-> "", phone |-> "0123"]

\* a record with several research interests, one of them empty
ManyInterests ==
    [name |-> "Ann Vu", title |-> "Dr", department |-> "CS",
     research_interests |-> List(<<"", "AI", "ML">>), email |-> "ann@x.edu", phone |-> "0456"]

FacultyInputs ==
    {Missing, Malformed, OkList(<<JaneDoe>>), OkList(<<NoName, BadInterests, JaneDoe>>)}

CS101 ==
    [code |-> "CS101", name |-> "Intro", description |-> "", credits |-> "3",
     department |-> "CS", instructors |-> List(<<"Jane Doe">>),
     prerequisites |-> List(<<>>)]

Algorithms ==
    [code |-> "", name |-> "Algorithms", description |-> "Design", credits |-> "",
     department |-> "", instructors |-> List(<<>>), prerequisites |-> List(<<"CS101">>)]

BadInstructors ==
    [code |-> "CS999", name |-> "", description |-> "", credits |-> "",
     department |-> "", instructors |-> NotIterable, prerequisites |-> List(<<>>)]

\* a record with neither code nor name
NoIdentifier ==
    [code |-> "", name |-> "", description |-> "Design", credits |-> "3",
     department |-> "CS", instructors |-> List(<<"Jane Doe">>),
     prerequisites |-> List(<<"CS101">>)]

CourseInputs ==
    {Missing, OkList(<<CS101, NoIdentifier, Algorithms>>), OkList(<<BadInstructors>>)}

OkDepartments(departments) ==
    [file |-> "ok",
     data |-> [shape |-> "dict", keys |-> {"departments"}, departments |-> departments]]

Dept(name, emails, phones, addresses) ==
    [name |-> name, emails |-> emails, phones |-> phones, addresses |-> addresses]

ContactInputs ==
    {Malformed,
     OkDepartments(<<Dept("CS", List(<<"cs@x.edu">>), List(<<>>), List(<<>>)),
                     Dept("General", List(<<>>), List(<<"0123">>), List(<<>>))>>),
     OkDepartments(<<Dept("CS", NotIterable, List(<<>>), List(<<>>))>>),
     OkDepartments(<<Dept("", List(<<"cs@x.edu">>), List(<<>>), List(<<>>))>>),
     OkDepartments(<<Dept(LongDeptText, List(<<>>), List(<<>>), List(<<>>))>>)}

OkItems(items) ==
    [file |-> "ok", data |-> [shape |-> "dict", keys |-> {"items"}, items |-> items]]

Item(text, types, urls) == [text |-> text, semantic_types |-> types, link_urls |-> urls]

GeneralInputs ==
    {Missing, Malformed,
     OkItems(<<Item("  UIT  ", {"university"}, <<>>),
               Item("Email: info@uit.edu.vn", {"contact_info"}, <<>>),
               Item("Khoa Cong nghe Phan mem", {"general_content"}, <<"https://se.uit.edu.vn">>),
               Item("Tel: (028) 372 52002", {"phone"}, <<>>),
               Item("Khu pho 6, Linh Trung, Thu Duc, TP HCM", {"address"}, <<>>),
               Item("Computer Science Program", {"program"}, <<>>),
               Item("   ", {"department", "program"}, <<>>)>>)}

----------------------------------------------------------------------------
(* Initial state: a KnowledgeGraph right after __init__, an empty database *)

NoRet == [call |-> "none", ops |-> <<>>, count |-> 0]

\* no list was handed to a caller yet
NoHeld == [taken |-> FALSE, live |-> FALSE, snapshot |-> <<>>, object |-> <<>>]

NoLast ==
    [call |-> "none", file |-> "none", raised |-> FALSE, emitted |-> <<>>,
     pre_queries |-> <<>>, pre_all |-> <<>>, batch |-> <<>>, fails |-> {},
     attempted |-> FALSE, error |-> "none"]

Init ==
    /\ queries = <<>>
    /\ all_queries = <<>>
    /\ driver = "none"
    /\ store = EmptyStore
    /\ ret = NoRet
    /\ last = NoLast
    /\ stream = <<>>
    /\ hist = [calls     |-> 0,       \* calls made so far
               nextId    |-> 1,       \* identity of the next dict add_query makes
               emitted   |-> <<>>,    \* entries the processors emitted, in order
               anyRaised |-> FALSE,   \* an exception occurred in some domain
               executed  |-> FALSE,   \* a batch was executed
               failed    |-> {},      \* ids emitted by a domain run that raised
               consumed  |-> {},      \* ids of the batches executed so far
               resent    |-> {},      \* ids sent to the store more than once
               held      |-> NoHeld]  \* the first list a process call returned:
                                      \* what it held then (snapshot), what the
                                      \* list object holds now (object), whether
                                      \* it still is the queue of the GraphBuilder

----------------------------------------------------------------------------
(* KnowledgeGraph.process_<domain>_data *)

\* GraphBuilder.get_queries: the queue itself
GetQueries(q) == q

\* the list a caller holds after a process call: get_queries hands out the
\* list object self.queries, which later add_query calls append to; the []
\* of the except clause is a list of its own
Hold(held, uncaught, returned, queue) ==
    IF ~uncaught /\ ~held.taken
    THEN [taken |-> TRUE, live |-> TRUE, snapshot |-> returned, object |-> queue]
    ELSE IF held.live THEN [held EXCEPT !.object = queue] ELSE held

\* self.all_queries.extend(queries)
ExtendAll(all, returned) == all \o returned

\* One process_<domain>_data call.  r is what the processor emits for the
\* input; escapes tells whether an exception leaves the processor (it does
\* in the faculty, course and general processors: only KnowledgeGraph's
\* except clause catches it, and returns []).
ProcessCall(call, input, r, escapes) ==
    LET new      == Entries(r.ops, hist.nextId)
        queue    == queries \o new
        uncaught == r.raised /\ escapes
        returned == IF uncaught THEN <<>> ELSE GetQueries(queue)
    IN  /\ hist.calls < MaxCalls
        /\ Len(all_queries) + Len(queue) <= MaxBatch
        /\ queries' = queue
        /\ all_queries' = IF uncaught THEN all_queries ELSE ExtendAll(all_queries, returned)
        /\ ret' = [call |-> call, ops |-> returned, count |-> 0]
        /\ last' = [NoLast EXCEPT !.call = call, !.file = input.file,
                                  !.raised = r.raised, !.emitted = new,
                                  !.pre_queries = queries, !.pre_all = all_queries]
        /\ hist' = [hist EXCEPT !.calls = @ + 1,
                                !.nextId = @ + Len(new),
                                !.emitted = IF r.raised THEN @ ELSE @ \o new,
                                !.anyRaised = @ \/ r.raised,
                                !.failed = IF r.raised THEN @ \cup Ids(new) ELSE @,
                                !.held = Hold(@, uncaught, returned, queue)]
        /\ UNCHANGED <<driver, store, stream>>

ProcessFacultyData ==
    \E input \in FacultyInputs :
        ProcessCall("process_faculty_data", input, FacultyProcess(input), TRUE)

ProcessCourseData ==
    \E input \in CourseInputs :
        ProcessCall("process_course_data", input, CourseProcess(input), TRUE)

ProcessContactData ==
    \E input \in ContactInputs :
        ProcessCall("process_contact_data", input, ContactProcess(input), FALSE)

ProcessGeneralData ==
    \E input \in GeneralInputs :
        ProcessCall("process_general_data", input, GeneralProcess(input), TRUE)

ProcessCalls ==
    {"process_faculty_data", "process_course_data",
     "process_contact_data", "process_general_data"}

\* KnowledgeGraph.get_all_queries
GetAllQueries == all_queries

----------------------------------------------------------------------------
(* Connecting *)

\* Neo4jConnector.connect: self.driver afterwards
ConnectDriver(old, outcome) ==
    CASE outcome = "open"   -> "open"
      [] outcome = "broken" -> "broken"
      [] OTHER              -> old

\* KnowledgeGraph.connect
Connect ==
    /\ \E outcome \in ConnectOutcomes : driver' = ConnectDriver(driver, outcome)
    /\ hist.calls < MaxCalls
    /\ ret' = [call |-> "connect", ops |-> <<>>, count |-> 0]
    /\ last' = [NoLast EXCEPT !.call = "connect", !.pre_queries = queries,
                              !.pre_all = all_queries]
    /\ hist' = [hist EXCEPT !.calls = @ + 1]
    /\ UNCHANGED <<queries, all_queries, store, stream>>

\* the failures session.run can show on a batch of n queries with this driver
Failures(drv, n) == IF drv = "open" THEN FailSets(n) ELSE {1..n}

----------------------------------------------------------------------------
(* KnowledgeGraph.build_knowledge_graph and clear_all_queries *)

BuildEmpty(execute) ==
    /\ all_queries = <<>>
    /\ ret' = [call |-> IF execute THEN "build_execute" ELSE "build", ops |-> <<>>, count |-> 0]
    /\ last' = [NoLast EXCEPT !.call = ret'.call, !.pre_queries = queries]
    /\ hist' = [hist EXCEPT !.calls = @ + 1]
    /\ UNCHANGED <<queries, all_queries, driver, store>>

\* BuildReturn, were the batch cleared once handed out, as it is after execution
BuildReturn_Clears ==
    /\ all_queries # <<>>
    /\ ret' = [call |-> "build", ops |-> all_queries, count |-> 0]
    /\ last' = [NoLast EXCEPT !.call = "build", !.pre_queries = queries,
                              !.pre_all = all_queries, !.batch = all_queries]
    /\ hist' = [hist EXCEPT !.calls = @ + 1]
    /\ all_queries' = <<>>
    /\ UNCHANGED <<queries, driver, store>>

BuildReturn ==
    /\ all_queries # <<>>
    /\ ret' = [call |-> "build", ops |-> all_queries, count |-> 0]
    /\ last' = [NoLast EXCEPT !.call = "build", !.pre_queries = queries,
                              !.pre_all = all_queries, !.batch = all_queries]
    /\ hist' = [hist EXCEPT !.calls = @ + 1]
    /\ UNCHANGED <<queries, all_queries, driver, store>>

\* execute=True and no connection can be made: "return 0"
BuildNoConnection ==
    /\ all_queries # <<>>
    /\ driver = "none"
    /\ \E outcome \in ConnectOutcomes \ {"open"} : driver' = ConnectDriver(driver, outcome)
    /\ ret' = [call |-> "build_execute", ops |-> <<>>, count |-> 0]
    /\ last' = [NoLast EXCEPT !.call = "build_execute", !.pre_queries = queries,
                              !.pre_all = all_queries, !.batch = all_queries]
    /\ hist' = [hist EXCEPT !.calls = @ + 1]
    /\ UNCHANGED <<queries, all_queries, store>>

\* execute=True with a driver (connecting first when there is none)
BuildExecute ==
    /\ all_queries # <<>>
    /\ driver' = IF driver = "none" THEN "open" ELSE driver
    /\ \E fails \in Failures(driver', Len(all_queries)) :
        /\ store' = ExecuteStore(store, all_queries, 1, fails)
        /\ ret' = [call |-> "build_execute", ops |-> <<>>,
                   count |-> ExecuteCount(Len(all_queries), 1, fails)]
        /\ last' = [NoLast EXCEPT !.call = "build_execute", !.pre_queries = queries,
                                  !.pre_all = all_queries, !.batch = all_queries,
                                  !.fails = fails, !.attempted = TRUE]
    /\ all_queries' = <<>>
    /\ hist' = [hist EXCEPT !.calls = @ + 1,
                            !.emitted = <<>>,
                            !.executed = TRUE,
                            !.consumed = @ \cup Ids(all_queries),
                            !.resent = @ \cup (Ids(all_queries) \cap hist.consumed)]
    /\ UNCHANGED queries

BuildKnowledgeGraph ==
    /\ hist.calls < MaxCalls
    /\ UNCHANGED stream
    /\ \/ BuildEmpty(TRUE)
       \/ BuildEmpty(FALSE)
       \/ BuildReturn
       \/ BuildNoConnection
       \/ BuildExecute

ClearAllQueries ==
    /\ hist.calls < MaxCalls
    /\ queries # <<>> \/ all_queries # <<>>
    /\ all_queries' = <<>>
    /\ queries' = <<>>
    /\ ret' = [call |-> "clear_all_queries", ops |-> <<>>, count |-> 0]
    /\ last' = [NoLast EXCEPT !.call = "clear_all_queries", !.pre_queries = queries,
                              !.pre_all = all_queries]
    /\ hist' = [hist EXCEPT !.calls = @ + 1, !.emitted = <<>>,
                            !.anyRaised = FALSE, !.executed = FALSE,
                            !.held.live = FALSE]
    /\ UNCHANGED <<driver, store, stream>>

Next ==
    \/ ProcessFacultyData
    \/ ProcessCourseData
    \/ ProcessContactData
    \/ ProcessGeneralData
    \/ BuildKnowledgeGraph
    \/ ClearAllQueries
    \/ Connect

Spec == Init /\ [][Next]_vars

----------------------------------------------------------------------------
(* GraphBuilder used directly: create_node, create_relationship, execute,   *)
(* clear_queries, over a small vocabulary of labels, keys and values.       *)

\* the create_node calls of the model: (label, properties)
GNodeCalls ==
    { <<"Faculty", <<<<"name", "a">>>> >>,
      <<"Faculty", <<<<"name", "b">>>> >>,
      <<"Faculty", << <<"name", "a">>, <<"title", "t">> >> >>,
      <<"Faculty", << <<"name", "a">>, <<"title", "u">> >> >>,
      <<"Faculty", <<<<"title", "t">>>> >>,
      <<"Faculty", << <<"title", "t">>, <<"name", "b">> >> >>,
      <<"Department", <<<<"name", "a">>>> >>,
      <<"Department", << <<"name", "a">>, <<"title", "u">> >> >>,
      <<"Faculty", <<>> >> }

\* the endpoints of the create_relationship calls of the model: (label, value)
GFrom == { <<"Faculty", "a">>, <<"Faculty", "b">> }

GTo == { <<"Faculty", "a">>, <<"Department", "a">>, <<"Department", "b">> }

\* relationship_properties: None, or one property
GRelProperties == { <<>>, <<<<"since", "y1">>>> }

\* what the database may hold from earlier runs: the statements applied to it
GSeeds ==
    { <<>>,
      << Node1("Faculty", "name", "a"), Node1("Department", "name", "a") >>,
      << Node1("Faculty", "name", "a"), Node1("Department", "name", "a"),
         Rel("Faculty", "name", "a", "Department", "name", "a", "BELONGS_TO") >>,
      << Node1("Faculty", "title", "t"), Node1("Faculty", "name", "a"),
         NodeStatement("Faculty", << <<"title", "t">>, <<"name", "a">> >>),
         Node1("Department", "name", "a") >> }

\* add_query putting the statement at the head of the list
AddQuery_Prepend(q, statement) == <<Entry(hist.nextId, statement)>> \o q

\* GraphBuilder.add_query
AddQuery(q, statement) == Append(q, Entry(hist.nextId, statement))

GraphBuilderCall(call, queue) ==
    /\ hist.calls < MaxSteps
    /\ queries' = queue
    /\ ret' = [call |-> call, ops |-> <<>>, count |-> 0]
    /\ last' = [NoLast EXCEPT !.call = call, !.pre_queries = queries,
                              !.emitted = SubSeq(queue, Len(queries) + 1, Len(queue))]
    /\ hist' = [hist EXCEPT !.calls = @ + 1, !.nextId = @ + 1]
    /\ UNCHANGED <<all_queries, driver, store, stream>>

\* a call that ends in an exception before add_query is reached
GraphBuilderRaise(call, error) ==
    /\ hist.calls < MaxSteps
    /\ ret' = [call |-> call, ops |-> <<>>, count |-> 0]
    /\ last' = [NoLast EXCEPT !.call = call, !.pre_queries = queries,
                              !.raised = TRUE, !.error = error]
    /\ hist' = [hist EXCEPT !.calls = @ + 1]
    /\ UNCHANGED <<queries, all_queries, driver, store, stream>>

\* primary_key = next(iter(properties.keys())): an empty dict has no first key
CreateNodeError(properties) == IF properties = <<>> THEN "StopIteration" ELSE "none"

CreateNode ==
    \E call \in GNodeCalls :
        IF CreateNodeError(call[2]) # "none"
        THEN GraphBuilderRaise("create_node", CreateNodeError(call[2]))
        ELSE GraphBuilderCall("create_node",
                              AddQuery(queries, NodeStatement(call[1], call[2])))

CreateRelationship ==
    \E from \in GFrom, to \in GTo, relationship_properties \in GRelProperties :
        GraphBuilderCall("create_relationship",
            AddQuery(queries, RelStatement(from[1], "name", from[2], to[1], "name", to[2],
                                           "BELONGS_TO", relationship_properties)))

\* GraphBuilder.execute on an empty queue: "return 0"
ExecuteEmpty ==
    /\ queries = <<>>
    /\ ret' = [call |-> "execute", ops |-> <<>>, count |-> 0]
    /\ last' = [NoLast EXCEPT !.call = "execute"]
    /\ UNCHANGED <<queries, store>>

\* GraphBuilder.execute without a driver: execute_queries returns 0 at once,
\* and the queue is cleared all the same
ExecuteNoDriver ==
    /\ queries # <<>>
    /\ driver = "none"
    /\ ret' = [call |-> "execute", ops |-> <<>>, count |-> 0]
    /\ last' = [NoLast EXCEPT !.call = "execute", !.pre_queries = queries,
                              !.batch = queries]
    /\ queries' = <<>>
    /\ UNCHANGED store

ExecuteBatch ==
    /\ queries # <<>>
    /\ driver # "none"
    /\ \E fails \in Failures(driver, Len(queries)) :
        /\ store' = ExecuteStore(store, queries, 1, fails)
        /\ ret' = [call |-> "execute", ops |-> <<>>,
                   count |-> ExecuteCount(Len(queries), 1, fails)]
        /\ last' = [NoLast EXCEPT !.call = "execute", !.pre_queries = queries,
                                  !.batch = queries, !.fails = fails,
                                  !.attempted = TRUE]
    /\ queries' = <<>>

Execute ==
    /\ hist.calls < MaxSteps
    /\ ExecuteEmpty \/ ExecuteNoDriver \/ ExecuteBatch
    /\ hist' = [hist EXCEPT !.calls = @ + 1]
    /\ UNCHANGED <<all_queries, driver, stream>>

ClearQueries ==
    /\ hist.calls < MaxSteps
    /\ queries # <<>>
    /\ queries' = <<>>
    /\ ret' = [call |-> "clear_queries", ops |-> <<>>, count |-> 0]
    /\ last' = [NoLast EXCEPT !.call = "clear_queries", !.pre_queries = queries]
    /\ hist' = [hist EXCEPT !.calls = @ + 1]
    /\ UNCHANGED <<all_queries, driver, store, stream>>

\* Neo4jConnector.connect, called by the owner of the GraphBuilder
ConnectStore ==
    /\ driver = "none"
    /\ \E outcome \in ConnectOutcomes : driver' = ConnectDriver(driver, outcome)
    /\ driver' # driver
    /\ ret' = [call |-> "connect", ops |-> <<>>, count |-> 0]
    /\ UNCHANGED <<queries, all_queries, store, last, hist, stream>>

NextStore ==
    \/ CreateNode
    \/ CreateRelationship
    \/ Execute
    \/ ClearQueries
    \/ ConnectStore

\* a GraphBuilder right after __init__, on a database earlier runs have written to
InitStore ==
    /\ queries = <<>>
    /\ all_queries = <<>>
    /\ driver = "none"
    /\ store \in {ApplyAll(EmptyStore, seed) : seed \in GSeeds}
    /\ ret = NoRet
    /\ last = NoLast
    /\ stream = <<>>
    /\ hist = [calls |-> 0, nextId |-> 1, emitted |-> <<>>, anyRaised |-> FALSE,
               executed |-> FALSE, failed |-> {}, consumed |-> {}, resent |-> {},
               held |-> NoHeld]

SpecStore == InitStore /\ [][NextStore]_vars

----------------------------------------------------------------------------
(* text_processor and data_processor: the classification of page elements. *)
(* An element is the element_data dict the classifier reads: its text, the  *)
(* class list and the id of its html_attributes, and the names of the       *)
(* patterns present in its regex_patterns.  The keyword tests are tables    *)
(* over the texts and attributes of the elements below.                     *)

ElementData(text, class, id, patterns) ==
    [text |-> text, class |-> class, id |-> id, regex_patterns |-> patterns]

\* the text of test_text_processor_basic
TestText ==
    "Contact Dr. Smith at john.smith@university.edu or call (555) 123-4567. Course CS101 meets in Room 204."

PatternNames == {"emails", "phone_numbers", "course_codes", "years", "urls", "room_numbers"}

NoMatches == [k \in PatternNames |-> <<>>]

\* the dict "patterns" of extract_regex_patterns: what re.findall gives for
\* each of the six expressions
RegexMatches(text) ==
    CASE text = TestText ->
           [NoMatches EXCEPT !.emails = <<"john.smith@university.edu">>,
                             !.course_codes = <<"Contact Dr. Smith at john.smith@university.edu or call (555)", "CS101">>,
                             !.room_numbers = <<"555", "123", "4567", "204">>]
      [] text = "Môn học IT001 (4 tín chỉ)" ->
           [NoMatches EXCEPT !.course_codes = <<"Môn học IT001 (4 tín chỉ)">>,
                             !.room_numbers = <<"4">>]
      [] text = "Lien he: info@uit.edu.vn" ->
           [NoMatches EXCEPT !.emails = <<"info@uit.edu.vn">>]
      [] text = "Hotline: 0283725200" ->
           [NoMatches EXCEPT !.phone_numbers = <<"0283725200">>]
      [] OTHER -> NoMatches

\* extract_regex_patterns: the keys of the dict it returns, the empty lists
\* removed
ExtractRegexPatterns(text) == {k \in PatternNames : RegexMatches(text)[k] # <<>>}

\* an element as extract_enhanced_element_data hands it to the classifier
Scraped(text, class, id) == ElementData(text, class, id, ExtractRegexPatterns(text))

\* the three elements of test_classification, with the patterns it supplies
TestElements ==
    { ElementData("Department of Computer Science", <<"department">>, "cs-dept", {}),
      ElementData("Dr. John Smith, Professor of Computer Science", <<"faculty">>, "prof-smith",
                  {"emails"}),
      ElementData("Introduction to Programming", <<"course">>, "cs101", {"course_codes"}) }

Elements ==
    TestElements \cup
    { Scraped("PGS. TS. Nguyen Van A", <<"giảng", "viên">>, ""),
      Scraped("Môn học IT001 (4 tín chỉ)", <<>>, ""),
      Scraped("Khoa Cong nghe Phan mem", <<"title-menu">>, ""),
      Scraped("Lien he: info@uit.edu.vn", <<"banner">>, ""),
      Scraped("Hotline: 0283725200", <<>>, "content"),
      Scraped(TestText, <<>>, ""),
      Scraped("", <<>>, "") }

\* any(keyword in text ...) for text = element_data['text'].lower() and the
\* keywords of line 34 ('giáo sư', 'gs.', 'pgs.', 'ts.', 'giảng viên', ...)
TextMentionsFaculty(text) == text = "PGS. TS. Nguyen Van A"

\* ... of line 41 ('khoa', 'ngành')
TextMentionsDepartment(text) == text = "Khoa Cong nghe Phan mem"

\* ... of line 51 ('môn', 'tín chỉ', 'điều kiện tiên quyết', 'đề cương')
TextMentionsCourse(text) == text = "Môn học IT001 (4 tín chỉ)"

\* any(keyword in classes + element_id ...) for the keywords of line 37
\* ('giảng viên', 'nhân sự', 'giáo sư', 'giảng dạy')
AttrsMentionFaculty(class, id) == class = <<"giảng", "viên">>

\* ... of line 59 ('nav', 'menu', 'breadcrumb', 'sidebar', 'title-menu')
AttrsMentionNavigation(class, id) == class = <<"title-menu">>

\* ... of line 63 ('content', 'nội dung', 'chính', 'bài viết', 'bài đăng')
AttrsMentionContent(class, id) == id = "content"

\* ... of line 67 ('đầu trang', 'cuối trang', 'banner')
AttrsMentionStructure(class, id) == class = <<"banner">>

\* the list a rule appends to semantic_types
Tagged(cond, tag) == IF cond THEN <<tag>> ELSE <<>>

\* contact_info given for a non-empty emails list only
FiredTags_EmailsOnly(element_data) ==
    LET text       == element_data.text
        class      == element_data.class
        element_id == element_data.id
        patterns   == element_data.regex_patterns
    IN  Tagged(TextMentionsFaculty(text), "faculty_member")
        \o Tagged(AttrsMentionFaculty(class, element_id), "faculty_member")
        \o Tagged(TextMentionsDepartment(text), "department")
        \o Tagged("course_codes" \in patterns, "course_info")
        \o Tagged(TextMentionsCourse(text), "course_info")
        \o Tagged("emails" \in patterns, "contact_info")
        \o Tagged(AttrsMentionNavigation(class, element_id), "navigation")
        \o Tagged(AttrsMentionContent(class, element_id), "main_content")
        \o Tagged(AttrsMentionStructure(class, element_id), "page_structure")

\* semantic_types at the return statement: each rule that fires has
\* appended its tag to the list
FiredTags(element_data) ==
    LET text       == element_data.text
        class      == element_data.class
        element_id == element_data.id
        patterns   == element_data.regex_patterns
    IN  Tagged(TextMentionsFaculty(text), "faculty_member")
        \o Tagged(AttrsMentionFaculty(class, element_id), "faculty_member")
        \o Tagged(TextMentionsDepartment(text), "department")
        \o Tagged("course_codes" \in patterns, "course_info")
        \o Tagged(TextMentionsCourse(text), "course_info")
        \o Tagged({"emails", "phone_numbers"} \cap patterns # {}, "contact_info")
        \o Tagged(AttrsMentionNavigation(class, element_id), "navigation")
        \o Tagged(AttrsMentionContent(class, element_id), "main_content")
        \o Tagged(AttrsMentionStructure(class, element_id), "page_structure")

\* classify_element_semantic_type returning the list as it is, empty or not
ClassifyElementSemanticType_NoFallback(element_data) == FiredTags(element_data)

\* classify_element_semantic_type: the list, or ['general_content'] when no
\* rule fired
ClassifyElementSemanticType(element_data) ==
    IF FiredTags(element_data) # <<>> THEN FiredTags(element_data) ELSE <<"general_content">>

\* len(text.split())
WordCount(text) ==
    CASE text = ""                                               -> 0
      [] text = "Introduction to Programming"                    -> 3
      [] text = "Department of Computer Science"                 -> 4
      [] text = "Lien he: info@uit.edu.vn"                       -> 3
      [] text = "Dr. John Smith, Professor of Computer Science"  -> 7
      [] text = "Môn học IT001 (4 tín chỉ)"                      -> 6
      [] text = "Hotline: 0283725200"                            -> 2
      [] text = TestText                                         -> 15
      [] OTHER                                                   -> 5

\* the fields of extract_enhanced_element_data that the filter reads
ExtractEnhancedElementData(element) ==
    [text           |-> element.text,
     regex_patterns |-> element.regex_patterns,
     semantic_types |-> ClassifyElementSemanticType(element),
     word_count     |-> WordCount(element.text)]

SemanticTypes ==
    {"faculty_member", "department", "course_info", "contact_info", "navigation",
     "main_content", "page_structure", "general_content"}

\* Skipped, were the navigation and structural elements kept
Skipped_ShortOnly(element) ==
    element.word_count < 2 /\ element.regex_patterns = {}

\* the two "continue" tests of filter_and_categorize_elements
Skipped(element) ==
    \/ element.word_count < 2 /\ element.regex_patterns = {}
    \/ /\ {"navigation", "page_structure"} \cap Range(element.semantic_types) # {}
       /\ {"emails", "phone_numbers"} \cap element.regex_patterns = {}

\* how many times the tag is in the list
Occurrences(types, tag) == Cardinality({i \in DOMAIN types : types[i] = tag})

\* filter_and_categorize_elements: for each category the places (in
\* all_elements) of the elements appended to its list, in the order of the
\* appends; a category nothing was appended to has the empty list
RECURSIVE CategoryList(_, _, _)
CategoryList(all_elements, tag, i) ==
    IF i > Len(all_elements) THEN <<>>
    ELSE (IF Skipped(all_elements[i]) THEN <<>>
          ELSE [k \in 1..Occurrences(all_elements[i].semantic_types, tag) |-> i])
         \o CategoryList(all_elements, tag, i + 1)

FilterAndCategorizeElements(all_elements) ==
    [tag \in SemanticTypes |-> CategoryList(all_elements, tag, 1)]

----------------------------------------------------------------------------
(* The streams (SpecStream): a page is read one element at a time, or the   *)
(* input file of the faculty or the course processor is assembled one       *)
(* fragment or record at a time, and the classification, extraction and     *)
(* emission functions are applied to what has been read.                    *)

\* longest fragment stream
MaxFragments == 4

\* most elements of a page
MaxElements == 3

\* a fragment as the processors read it: item.get('text'), item.get('semantic_types')
Fragment(text, types) == Item(text, types, <<>>)

DepartmentFragments ==
    { Fragment("CS", {"department"}),
      Fragment("  UIT  ", {"department"}),
      Fragment("   ", {"department"}),
      Fragment("Khoa Cong nghe Phan mem", {"general_content"}) }

FacultyFragments ==
    { Fragment("Jane Doe", {"faculty_name"}),
      Fragment("PGS TS", {"general_content"}),
      Fragment("SE", {"person_name", "department"}),
      Fragment("AI", {"research_interest"}),
      Fragment("ML", {"research"}),
      Fragment("Email: jane@x.edu, j.doe@y.org", {"contact_info"}),
      Fragment("Tel: (028) 372 52002", {"phone"}) } \cup DepartmentFragments

CourseFragments ==
    { Fragment("CS101 Intro", {"course_code"}),
      Fragment("SE", {"course_name", "department"}),
      Fragment("Design of algorithms", {"description"}),
      Fragment("Welcome", {"general_content"}),
      Fragment("3 credits", {"general_content"}),
      Fragment("Instructor: Jane Doe, Bob Lee", {"instructor"}),
      Fragment("Requires CS101", {"prerequisite"}) } \cup DepartmentFragments

\* the records of a structured faculty file
FacultyRecords == {JaneDoe, NoName, PhoneOnly, ManyInterests}

\* a record with a code and no name
CodeOnly ==
    [code |-> "IT002", name |-> "", description |-> "", credits |-> "4",
     department |-> "", instructors |-> List(<<"", "Bob Lee">>),
     prerequisites |-> List(<<"", "CS101">>)]

\* the records of a structured course file
CourseRecords == {CS101, Algorithms, CodeOnly, NoIdentifier}

\* the fragments of a general information file
GeneralFragments ==
    { Item("  UIT  ", {"university"}, <<>>),
      Item("Email: info@uit.edu.vn", {"contact_info"}, <<>>),
      Item("Khoa Cong nghe Phan mem", {"general_content"}, <<"https://se.uit.edu.vn">>),
      Item("Tel: (028) 372 52002", {"phone"}, <<>>),
      Item("Khu pho 6, Linh Trung, Thu Duc, TP HCM", {"address"}, <<>>),
      Item("Computer Science Program", {"program"}, <<>>),
      Item("   ", {"department", "program", "university"}, <<>>) }

\* the departments of a contact file: free texts above, at and below the
\* threshold as names, and a department with contact details
ContactRecords ==
    { Dept(LongDeptText, List(<<>>), List(<<>>), List(<<>>)),
      Dept(StaffText, List(<<"httt@uit.edu.vn">>), List(<<>>), List(<<>>)),
      Dept(Text100, List(<<>>), List(<<>>), List(<<>>)),
      Dept(Text101, List(<<>>), List(<<>>), List(<<>>)),
      Dept("General", List(<<"", "info@uit.edu.vn">>), List(<<"0123">>),
           List(<<"Linh Trung">>)) }

\* the input file of a processor holding the stream: a list of records,
\* {"departments": [...]}, or {"items": [...]} holding fragments
StreamInput ==
    IF stream # <<>> /\ Range(stream) \subseteq FacultyRecords \cup CourseRecords
    THEN OkList(stream)
    ELSE IF stream # <<>> /\ Range(stream) \subseteq ContactRecords
    THEN OkDepartments(stream)
    ELSE OkItems(stream)

\* one more fragment or record of an input file, or one more element of a
\* page, is read
Scrape ==
    /\ \E domain \in {FacultyFragments, CourseFragments, GeneralFragments, FacultyRecords,
                      CourseRecords, ContactRecords, Elements} :
        /\ Len(stream) < (IF domain = Elements THEN MaxElements ELSE MaxFragments)
        /\ Range(stream) \subseteq domain
        /\ \E item \in domain : stream' = Append(stream, item)
    /\ ret' = [call |-> "scrape", ops |-> <<>>, count |-> 0]
    /\ UNCHANGED <<queries, all_queries, driver, store, last, hist>>

\* extract_faculty_info or extract_course_info on the stream so far
\* ret.entities is the list returned, ret.context the value of
\* current_department when the loop ends
ExtractCall(call, entities, context) ==
    /\ stream # <<>>
    /\ ret' = [call |-> call, ops |-> <<>>, count |-> Len(entities), entities |-> entities,
               context |-> context]
    /\ UNCHANGED <<queries, all_queries, driver, store, last, hist, stream>>

ExtractFaculty ==
    /\ Range(stream) \subseteq FacultyFragments
    /\ ExtractCall("extract_faculty_info", ExtractFacultyInfo(LoadData(StreamInput)),
                   FacultyFold(FacultyStart, stream).department)

ExtractCourse ==
    /\ Range(stream) \subseteq CourseFragments
    /\ ExtractCall("extract_course_info", ExtractCourseInfo(LoadData(StreamInput)),
                   CourseFold(CourseStart, stream).department)

\* FacultyProcessor(GraphBuilder(None)).process on the structured file:
\* the statements of the queue it returns
ProcessFacultyList ==
    /\ stream # <<>>
    /\ Range(stream) \subseteq FacultyRecords
    /\ ret' = [call |-> "process", ops |-> FacultyProcess(StreamInput).ops, count |-> 0]
    /\ UNCHANGED <<queries, all_queries, driver, store, last, hist, stream>>

\* CourseProcessor(GraphBuilder(None)).process on the structured file:
\* the statements of the queue it returns
ProcessCourseList ==
    /\ stream # <<>>
    /\ Range(stream) \subseteq CourseRecords
    /\ ret' = [call |-> "process_course", ops |-> CourseProcess(StreamInput).ops, count |-> 0]
    /\ UNCHANGED <<queries, all_queries, driver, store, last, hist, stream>>

\* ContactProcessor(GraphBuilder(None)).process on the contact file:
\* the statements of the queue it returns
ProcessContactList ==
    /\ stream # <<>>
    /\ Range(stream) \subseteq ContactRecords
    /\ ret' = [call |-> "process_contact", ops |-> ContactProcess(StreamInput).ops, count |-> 0]
    /\ UNCHANGED <<queries, all_queries, driver, store, last, hist, stream>>

\* process of the faculty, course or general processor on the file
\* {"items": [...]} holding the stream (the general processor also on no
\* items at all): the statements of the queue it returns
ProcessItems(call, ops) ==
    /\ ret' = [call |-> call, ops |-> ops, count |-> 0]
    /\ UNCHANGED <<queries, all_queries, driver, store, last, hist, stream>>

ProcessFacultyItems ==
    /\ stream # <<>>
    /\ Range(stream) \subseteq FacultyFragments
    /\ ProcessItems("process_faculty_items", FacultyProcess(OkItems(stream)).ops)

ProcessCourseItems ==
    /\ stream # <<>>
    /\ Range(stream) \subseteq CourseFragments
    /\ ProcessItems("process_course_items", CourseProcess(OkItems(stream)).ops)

ProcessGeneralItems ==
    /\ Range(stream) \subseteq GeneralFragments
    /\ ProcessItems("process_general", GeneralProcess(OkItems(stream)).ops)

\* classify_element_semantic_type on the element read last
ClassifyElement ==
    /\ stream # <<>>
    /\ Range(stream) \subseteq Elements
    /\ ret' = [call |-> "classify", ops |-> <<>>, count |-> 0,
               types |-> ClassifyElementSemanticType(stream[Len(stream)])]
    /\ UNCHANGED <<queries, all_queries, driver, store, last, hist, stream>>

\* filter_and_categorize_elements on the elements read so far
FilterAndCategorize ==
    /\ stream # <<>>
    /\ Range(stream) \subseteq Elements
    /\ ret' = [call |-> "filter", ops |-> <<>>, count |-> 0,
               categorized |-> FilterAndCategorizeElements(
                                   [i \in DOMAIN stream |-> ExtractEnhancedElementData(stream[i])])]
    /\ UNCHANGED <<queries, all_queries, driver, store, last, hist, stream>>

\* extract_regex_patterns on the text of the element read last
ExtractPatterns ==
    /\ stream # <<>>
    /\ Range(stream) \subseteq Elements
    /\ LET text == stream[Len(stream)].text
       IN  ret' = [call |-> "patterns", ops |-> <<>>, count |-> 0,
                   patterns |-> [k \in ExtractRegexPatterns(text) |-> RegexMatches(text)[k]]]
    /\ UNCHANGED <<queries, all_queries, driver, store, last, hist, stream>>

NextStream ==
    \/ Scrape
    \/ ExtractFaculty
    \/ ExtractCourse
    \/ ProcessFacultyList
    \/ ProcessCourseList
    \/ ProcessContactList
    \/ ClassifyElement
    \/ FilterAndCategorize
    \/ ExtractPatterns

SpecStream == Init /\ [][NextStream]_vars

\* the processors alone, each on every file it can read
NextBatch ==
    \/ Scrape
    \/ ProcessFacultyList
    \/ ProcessCourseList
    \/ ProcessContactList
    \/ ProcessFacultyItems
    \/ ProcessCourseItems
    \/ ProcessGeneralItems

SpecBatch == Init /\ [][NextBatch]_vars

----------------------------------------------------------------------------
(* Properties of the statements against the store (SpecStore).  They are    *)
(* stated over the statements in the queue and the store as it stands.      *)

\* two stores that differ only in the identity of their nodes and in the
\* order their edges were created in
StoreEquiv(s, t) ==
    \/ s = t
    \/ /\ Len(s.nodes) = Len(t.nodes)
       /\ Len(s.edges) = Len(t.edges)
       /\ \E p \in Permutations(DOMAIN s.nodes) :
            /\ \A i \in DOMAIN s.nodes : t.nodes[p[i]] = s.nodes[i]
            /\ {[e EXCEPT !.from = p[@], !.to = p[@]] : e \in Range(s.edges)}
                  = Range(t.edges)

QueuedOps == {Statement(queries[i]) : i \in DOMAIN queries}

FromNodes(st, op) ==
    MatchNodes(st, op.query.from_label, op.query.from_property, op.params.from_value)

ToNodes(st, op) ==
    MatchNodes(st, op.query.to_label, op.query.to_property, op.params.to_value)

\* C1: every statement create_node or create_relationship composes, applied
\* twice in a row to an empty store, leaves the store as one application does.
C1_TwiceIsOnce ==
    \A op \in QueuedOps :
        Apply(Apply(EmptyStore, op), op) = Apply(EmptyStore, op)

\* a queued node upsert with SET clauses that creates a node in the empty store
C1_Witness ==
    \E op \in QueuedOps :
        /\ IsNodeOp(op)
        /\ op.query.sets # <<>>
        /\ Len(Apply(EmptyStore, op).nodes) = 1
        /\ Apply(Apply(EmptyStore, op), op) = Apply(EmptyStore, op)

\* C2: a create_relationship statement applied to a store in which the
\* from-endpoint or the to-endpoint does not exist creates no node and no
\* edge: the store is unchanged.
C2_MissingEndpoint ==
    \A op \in QueuedOps :
        (IsRelOp(op) /\ (FromNodes(store, op) = {} \/ ToNodes(store, op) = {}))
            => Apply(store, op) = store

\* a store that holds the from-endpoint of a queued relationship and not its
\* to-endpoint
C2_Witness ==
    \E op \in QueuedOps :
        /\ IsRelOp(op)
        /\ FromNodes(store, op) # {}
        /\ ToNodes(store, op) = {}
        /\ Apply(store, op) = store

\* the two orders of applying a and b to st
Commute(st, a, b) ==
    StoreEquiv(Apply(Apply(st, a), b), Apply(Apply(st, b), a))

\* C3 as stated: any two statements of the GraphBuilder, node upserts and
\* relationship upserts in any mix, applied to any store in either order,
\* yield the same final store.
C3_AnyOrder ==
    \A a \in QueuedOps, b \in QueuedOps : Commute(store, a, b)

\* the node upserts a and b cannot touch each other's pattern: another label,
\* or the same key property with another key value or with the same value for
\* every property both of them SET
NodesApart(a, b) ==
    \/ a.query.label # b.query.label
    \/ /\ a.query.pk = b.query.pk
       /\ \/ a.params[a.query.pk] # b.params[b.query.pk]
          \/ \A k \in Range(a.query.sets) \cap Range(b.query.sets) :
                a.params[k] = b.params[k]

\* C3: two relationship upserts without relationship properties, and two
\* node upserts that differ in label, or share the key property and differ
\* in its value or agree on every property both SET, yield the same final
\* store (up to the identity of nodes) in either order.
C3_OrderWhenApart ==
    \A a \in QueuedOps, b \in QueuedOps :
        ( \/ /\ IsRelOp(a) /\ IsRelOp(b)
             /\ a.query.rprops = <<>> /\ b.query.rprops = <<>>
          \/ /\ IsNodeOp(a) /\ IsNodeOp(b)
             /\ NodesApart(a, b) )
            => Commute(store, a, b)

\* two different relationship upserts without properties in the queue, each
\* of which adds an edge to the store, the edges landing in another order
C3_Witness ==
    \E a \in QueuedOps, b \in QueuedOps :
        /\ IsRelOp(a) /\ IsRelOp(b) /\ a # b
        /\ a.query.rprops = <<>> /\ b.query.rprops = <<>>
        /\ Apply(store, a) # store
        /\ Apply(store, b) # store
        /\ Apply(Apply(store, a), b) # Apply(Apply(store, b), a)
        /\ Commute(store, a, b)

----------------------------------------------------------------------------
(* Properties of the orchestrator (Spec) *)

\* C4: after process_<domain>_data calls with no clear or execute in between
\* (and no domain raising), get_all_queries() holds every emitted operation
\* exactly once, in emission order.
C4_EmittedOnceInOrder ==
    (~hist.executed /\ ~hist.anyRaised) => GetAllQueries = hist.emitted

\* C5: a process_<domain>_data call that ends normally returns exactly the
\* operations its processor emitted for this input, and none of an earlier
\* call.
C5_ReturnsOwnOperations ==
    (ret.call \in ProcessCalls /\ ~last.raised) => ret.ops = last.emitted

\* C6 (faculty, course and contact domains): on a missing or unparseable
\* input file the call returns an empty list and leaves get_all_queries()
\* as it was.
C6_MissingFileIsZero ==
    (/\ ret.call \in ProcessCalls \ {"process_general_data"}
     /\ last.file # "ok")
        => (ret.ops = <<>> /\ GetAllQueries = last.pre_all)

C8_FailedDomainIsZero ==
    Ids(GetAllQueries) \cap hist.failed = {}

\* C9: no operation of an executed batch is in a later batch or return value,
\* and none is sent to the store a second time.
C9_ConsumedOnce ==
    /\ Ids(GetAllQueries) \cap hist.consumed = {}
    /\ Ids(ret.ops) \cap hist.consumed = {}
    /\ hist.resent = {}

\* C10 as stated: build_knowledge_graph(execute=True) on a non-empty batch
\* with a working connection returns the number of operations in the batch,
\* whether or not individual operations fail.
C10_CountsAttempted ==
    (ret.call = "build_execute" /\ last.attempted /\ driver = "open")
        => ret.count = Len(last.batch)

\* C10: build_knowledge_graph(execute=True) on a non-empty batch with a
\* working connection returns the number of operations of the batch that
\* executed successfully: the batch length less the operations that failed.
C10_CountsSuccessful ==
    (ret.call = "build_execute" /\ last.attempted /\ driver = "open")
        => /\ ret.count = Len(last.batch) - Cardinality(last.fails)
           /\ GetAllQueries = <<>>

\* an executed batch of which some operations failed and some succeeded
C10_Witness ==
    /\ ret.call = "build_execute"
    /\ last.attempted
    /\ driver = "open"
    /\ last.fails # {}
    /\ 0 < ret.count
    /\ ret.count < Len(last.batch)

\* C11: build_knowledge_graph(execute=False) returns the accumulated batch
\* and does nothing else: no operation reaches the store, no connection is
\* opened, and the batch and the queue are the same before and after.
C11_BuildReturnsUnexecuted ==
    [][ret'.call = "build"
        => /\ ret'.ops = all_queries
           /\ all_queries' = all_queries
           /\ queries' = queries
           /\ store' = store
           /\ driver' = driver]_vars

\* a non-empty batch returned by build_knowledge_graph(execute=False), still
\* held afterwards, with no connection and an untouched database
C11_Witness ==
    /\ ret.call = "build"
    /\ ret.ops # <<>>
    /\ GetAllQueries = ret.ops
    /\ driver = "none"
    /\ store = EmptyStore

\* the queries of the batch that did not fail, in batch order
NonFailed(batch, fails) ==
    LET keep == {i \in DOMAIN batch : i \notin fails}
        RECURSIVE Pick(_)
        Pick(i) == IF i > Len(batch) THEN <<>>
                   ELSE (IF i \in keep THEN <<batch[i]>> ELSE <<>>) \o Pick(i + 1)
    IN  Pick(1)

\* C12: with an open connection a failing operation does not abort the
\* batch: every other operation of the batch takes effect, in batch order,
\* and the result is the number of operations that succeeded, between 0 and
\* the batch length.
C12_FailureDoesNotAbort ==
    [][(ret'.call = "build_execute" /\ last'.attempted /\ driver' = "open")
        => /\ last'.batch = all_queries
           /\ last'.fails \subseteq DOMAIN all_queries
           /\ ret'.count = Len(NonFailed(all_queries, last'.fails))
           /\ ret'.count \in 0..Len(all_queries)
           /\ store' = ApplyAll(store, NonFailed(all_queries, last'.fails))]_vars

\* an executed batch whose first operation failed and of which a later
\* operation changed the database
C12_Witness ==
    /\ ret.call = "build_execute"
    /\ last.attempted
    /\ driver = "open"
    /\ 1 \in last.fails
    /\ ret.count > 0
    /\ store # EmptyStore

\* C13: create_node called with an empty properties mapping fails with an
\* InvalidEntity error and appends no operation to the queue.
C13_EmptyPropertiesInvalidEntity ==
    (last.call = "create_node" /\ last.raised)
        => (last.error = "InvalidEntity" /\ queries = last.pre_queries)

\* the nodes the pattern of the node upsert op matches in st
KeyNodes(st, op) == MatchNodes(st, op.query.label, op.query.pk, op.params[op.query.pk])

\* every node of st is in after, with its label, and with its properties as
\* they were except the ones op SETs on the nodes it matches
NodesKept(st, after, op) ==
    \A i \in DOMAIN st.nodes :
        /\ i \in DOMAIN after.nodes
        /\ after.nodes[i].label = st.nodes[i].label
        /\ \A k \in DOMAIN st.nodes[i].props :
            /\ k \in DOMAIN after.nodes[i].props
            /\ \/ after.nodes[i].props[k] = st.nodes[i].props[k]
               \/ i \in KeyNodes(after, op) /\ k \in Range(op.query.sets)

\* every node the pattern matches carries the values op supplies
ValuesSet(after, op) ==
    \A i \in KeyNodes(after, op) :
        \A k \in DOMAIN op.params : HasProp(after.nodes[i].props, k, op.params[k])

\* C14 as stated: applying a create_node operation leaves exactly one node
\* with its label and key value, with every remaining supplied property set
\* to the supplied value and every other property of existing nodes
\* unchanged.
C14_ExactlyOneNode ==
    \A op \in QueuedOps :
        IsNodeOp(op) =>
            LET after == Apply(store, op)
            IN  /\ Cardinality(KeyNodes(after, op)) = 1
                /\ ValuesSet(after, op)
                /\ NodesKept(store, after, op)

\* C14: applying a create_node operation leaves at least one node with its
\* label and key value: one new node when the store had none, otherwise
\* the nodes that had them already (several, when upserts keyed by another
\* property gave several nodes the same value).  Every such node has every
\* remaining supplied property set to the supplied value; every other
\* property, every other node and every edge is unchanged.
C14_Upsert ==
    \A op \in QueuedOps :
        IsNodeOp(op) =>
            LET after  == Apply(store, op)
                before == KeyNodes(store, op)
            IN  /\ KeyNodes(after, op) # {}
                /\ before # {} => (KeyNodes(after, op) = before
                                   /\ Len(after.nodes) = Len(store.nodes))
                /\ before = {} => (KeyNodes(after, op) = {Len(store.nodes) + 1}
                                   /\ Len(after.nodes) = Len(store.nodes) + 1)
                /\ ValuesSet(after, op)
                /\ NodesKept(store, after, op)
                /\ after.edges = store.edges

\* a queued node upsert that overwrites a property of an existing node with
\* another value and leaves the key property of that node alone
C14_Witness ==
    \E op \in QueuedOps :
        /\ IsNodeOp(op)
        /\ \E i \in KeyNodes(store, op), k \in Range(op.query.sets) :
            /\ k \in DOMAIN store.nodes[i].props
            /\ store.nodes[i].props[k] # op.params[k]
            /\ Apply(store, op).nodes[i].props[k] = op.params[k]

----------------------------------------------------------------------------
(* Properties of the reconstruction from fragment streams (SpecStream) *)

\* the tags that open an entity in the extraction that produced ret
OpenTags ==
    IF ret.call = "extract_faculty_info" THEN {"faculty_name", "person_name"}
    ELSE {"course_code", "course_name"}

Extracted == ret.call \in {"extract_faculty_info", "extract_course_info"}

\* places of the stream where an entity is opened, and where a department is read
OpenPlaces == {i \in DOMAIN stream : stream[i].semantic_types \cap OpenTags # {}}

DepartmentPlaces ==
    {i \in DOMAIN stream \ OpenPlaces :
        "department" \in stream[i].semantic_types \/ MentionsKhoa(stream[i].text)}

\* the place where the k-th entity of the result was opened
PlaceOf(k) == CHOOSE p \in OpenPlaces : Cardinality({q \in OpenPlaces : q <= p}) = k

Max(S) == CHOOSE x \in S : \A y \in S : y <= x

Min(S) == CHOOSE x \in S : \A y \in S : x <= y

\* the department fragment that decides the department of an entity opened at
\* place p: the nearest one before p, or the first of the stream when none
\* comes before p (only used when the stream has a department fragment)
DecidingPlace(p) ==
    IF \E d \in DepartmentPlaces : d < p
    THEN Max({d \in DepartmentPlaces : d < p})
    ELSE Min(DepartmentPlaces)

----------------------------------------------------------------------------
(* Properties of the emission of the four processors (Spec) *)

\* the labels of the entities with an identifying key
KeyedLabels == {"Faculty", "Course", "Department", "Program"}

\* the statement upserts a keyed entity with the empty key, or links one
MentionsEmptyKey(op) ==
    IF IsNodeOp(op)
    THEN op.query.label \in KeyedLabels /\ op.params[op.query.pk] = ""
    ELSE \/ op.query.from_label \in KeyedLabels /\ op.params.from_value = ""
         \/ op.query.to_label \in KeyedLabels /\ op.params.to_value = ""

\* C16: no operation emitted by a processor upserts or links a Faculty,
\* Course, Department or Program whose identifying key is empty
C16_EmptyKeyDropped ==
    \A i \in DOMAIN last.emitted : ~MentionsEmptyKey(Statement(last.emitted[i]))
----------------------------------------------------------------------------
(* Properties of the emission for structured faculty files (SpecStream) *)

\* the operations of one record, in the order the interface gives them
ExpectedFaculty(f) ==
    IF f.name = "" THEN <<>>
    ELSE << NodeStatement("Faculty",
                IF f.title # "" THEN << <<"name", f.name>>, <<"title", f.title>> >>
                ELSE << <<"name", f.name>> >>) >>
         \o (IF f.department # ""
             THEN << NodeStatement("Department", << <<"name", f.department>> >>),
                     RelStatement("Faculty", "name", f.name,
                                  "Department", "name", f.department, "BELONGS_TO", <<>>),
                     RelStatement("Department", "name", f.department,
                                  "Faculty", "name", f.name, "HAS_MEMBER", <<>>) >>
             ELSE <<>>)
         \o Flatten([i \in DOMAIN f.research_interests.items |->
                IF f.research_interests.items[i] # ""
                THEN << NodeStatement("ResearchInterest",
                            << <<"name", f.research_interests.items[i]>> >>),
                        RelStatement("Faculty", "name", f.name, "ResearchInterest", "name",
                                     f.research_interests.items[i], "INTERESTED_IN", <<>>) >>
                ELSE <<>>])
         \o (IF f.email # ""
             THEN << NodeStatement("Email", << <<"address", f.email>> >>),
                     RelStatement("Faculty", "name", f.name,
                                  "Email", "address", f.email, "HAS_EMAIL", <<>>) >>
             ELSE <<>>)
         \o (IF f.phone # ""
             THEN << NodeStatement("PhoneNumber", << <<"number", f.phone>> >>),
                     RelStatement("Faculty", "name", f.name,
                                  "PhoneNumber", "number", f.phone, "HAS_PHONE", <<>>) >>
             ELSE <<>>)

\* the eight operations of the Jane Doe example
JaneDoeOperations ==
    << NodeStatement("Faculty", << <<"name", "Jane Doe">>, <<"title", "Professor">> >>),
       NodeStatement("Department", << <<"name", "CS">> >>),
       RelStatement("Faculty", "name", "Jane Doe", "Department", "name", "CS", "BELONGS_TO", <<>>),
       RelStatement("Department", "name", "CS", "Faculty", "name", "Jane Doe", "HAS_MEMBER", <<>>),
       NodeStatement("ResearchInterest", << <<"name", "AI">> >>),
       RelStatement("Faculty", "name", "Jane Doe", "ResearchInterest", "name", "AI", "INTERESTED_IN", <<>>),
       NodeStatement("Email", << <<"address", "jane@x.edu">> >>),
       RelStatement("Faculty", "name", "Jane Doe", "Email", "address", "jane@x.edu", "HAS_EMAIL", <<>>) >>

\* C17: for a structured faculty file the processor returns, record after
\* record, the operations of each record in the fixed order (Faculty;
\* Department and its two links; each non-empty interest and its link; Email
\* and its link; PhoneNumber and its link), and for the file holding Jane Doe
\* alone exactly the eight operations of the example
C17_FixedOrder ==
    ret.call = "process"
        => /\ ret.ops = Flatten([i \in DOMAIN stream |-> ExpectedFaculty(stream[i])])
           /\ stream = <<JaneDoe>> => ret.ops = JaneDoeOperations

\* a file of three records was processed: Jane Doe's eight operations, none
\* for the record without a name, twelve for the record with every field
C17_Witness ==
    /\ ret.call = "process"
    /\ stream = <<JaneDoe, NoName, ManyInterests>>
    /\ Len(ret.ops) = 20
    /\ SubSeq(ret.ops, 1, 8) = JaneDoeOperations
----------------------------------------------------------------------------
(* Properties of the classification (SpecStream) *)

\* the element the classifier was applied to
Classified == stream[Len(stream)]

\* C18: the classifier returns at least one tag, and general_content only as
\* the sole tag
C18_Totality ==
    ret.call = "classify"
        => /\ ret.types # <<>>
           /\ "general_content" \in Range(ret.types) => ret.types = <<"general_content">>

\* an element no rule fires on got general_content, one with two rules got
\* their two tags
C18_Witness ==
    /\ ret.call = "classify"
    /\ \/ Classified.text = "" /\ ret.types = <<"general_content">>
       \/ Classified.text = "Khoa Cong nghe Phan mem" /\ ret.types = <<"department", "navigation">>

\* C19: no tag occurs twice in the classifier's result, and no element is
\* placed twice in the list of a category
C19_ResultIsSet ==
    /\ ret.call = "classify"
         => \A tag \in SemanticTypes : Occurrences(ret.types, tag) <= 1
    /\ ret.call = "filter"
         => \A tag \in SemanticTypes : \A i \in DOMAIN stream :
               Occurrences(ret.categorized[tag], i) <= 1

\* "department" in text.lower()
ContainsDepartmentWord(text) == text = "Department of Computer Science"

\* C20: an element whose text contains the word department is classified
\* with the tag department
C20_DepartmentKeyword ==
    (ret.call = "classify" /\ ContainsDepartmentWord(Classified.text))
        => "department" \in Range(ret.types)

\* C21: contact_info is in the classifier's result exactly when the
\* element's patterns hold a non-empty emails or phone_numbers list
C21_ContactInfoIffPatterns ==
    ret.call = "classify"
        => ("contact_info" \in Range(ret.types)
              <=> {"emails", "phone_numbers"} \cap Classified.regex_patterns # {})

\* an element with a phone number and no email got contact_info
C21_Witness ==
    /\ ret.call = "classify"
    /\ Classified.regex_patterns = {"phone_numbers"}
    /\ ret.types = <<"contact_info", "main_content">>

\* C22: for the test text extract_regex_patterns gives the one email, a
\* course_codes list with CS101 and a non-empty phone_numbers list
C22_TestTextPatterns ==
    (ret.call = "patterns" /\ Classified.text = TestText)
        => /\ "emails" \in DOMAIN ret.patterns
           /\ ret.patterns["emails"] = <<"john.smith@university.edu">>
           /\ "course_codes" \in DOMAIN ret.patterns
           /\ "CS101" \in Range(ret.patterns["course_codes"])
           /\ "phone_numbers" \in DOMAIN ret.patterns
           /\ ret.patterns["phone_numbers"] # <<>>
----------------------------------------------------------------------------
(* Properties of whole batches (SpecStore, SpecStream) *)

\* the statements of the queue, in order
Batch == [i \in DOMAIN queries |-> Statement(queries[i])]

\* C23 (as stated): the batch accumulated by the create_node and
\* create_relationship calls, applied in order twice to an empty store, leaves
\* the store that one application leaves
C23_ReplayTwiceIsOnce ==
    StoreEquiv(ApplyAll(ApplyAll(EmptyStore, Batch), Batch), ApplyAll(EmptyStore, Batch))

\* the node upserts of one label are all keyed by the same property, and no
\* upsert of the label sets that property
OneKeyPerLabel(batch) ==
    \A i, j \in DOMAIN batch :
        (IsNodeOp(batch[i]) /\ IsNodeOp(batch[j])
            /\ batch[i].query.label = batch[j].query.label)
        => /\ batch[i].query.pk = batch[j].query.pk
           /\ batch[i].query.pk \notin Range(batch[j].query.sets)

\* the operation upserts the node with this label, key property and key value
Upserts(op, label, property, value) ==
    /\ IsNodeOp(op)
    /\ op.query.label = label
    /\ op.query.pk = property
    /\ op.params[property] = value

\* each relationship comes after the upserts of both its endpoints
EndpointsFirst(batch) ==
    \A i \in DOMAIN batch :
        IsRelOp(batch[i])
        => /\ \E j \in 1..(i - 1) :
                Upserts(batch[j], batch[i].query.from_label, batch[i].query.from_property,
                        batch[i].params.from_value)
           /\ \E j \in 1..(i - 1) :
                Upserts(batch[j], batch[i].query.to_label, batch[i].query.to_property,
                        batch[i].params.to_value)

\* C23 (amended): a batch that keys each label by one property and puts each
\* relationship after the upserts of its endpoints, applied in order twice
\* to an empty store, leaves the store that one application leaves
C23_ReplayWhenOrdered ==
    (OneKeyPerLabel(Batch) /\ EndpointsFirst(Batch))
        => ApplyAll(ApplyAll(EmptyStore, Batch), Batch) = ApplyAll(EmptyStore, Batch)

\* a batch of two operations, the second overwriting a property the first
\* set or linking the node the first upserts, was accumulated
C23_Witness ==
    /\ Len(Batch) = 2
    /\ OneKeyPerLabel(Batch)
    /\ EndpointsFirst(Batch)
    /\ \/ IsRelOp(Batch[2]) /\ Len(ApplyAll(EmptyStore, Batch).edges) = 1
       \/ /\ IsNodeOp(Batch[2])
          /\ Batch[1] # Batch[2]
          /\ Len(ApplyAll(EmptyStore, Batch).nodes) = 1

\* C24: the batch a processor returns never holds the same operation twice
C24_NoIdenticalOperations ==
    ret.call = "process"
        => \A i, j \in DOMAIN ret.ops : ret.ops[i] = ret.ops[j] => i = j
----------------------------------------------------------------------------
(* Properties of one step of the reconstruction (SpecStream): the result    *)
(* for the stream is compared with the result for the stream without its    *)
(* last fragment.                                                           *)

LastFragment == stream[Len(stream)]

\* the loop's variables before the last fragment is read
StateBefore ==
    IF ret.call = "extract_faculty_info"
    THEN FacultyFold(FacultyStart, SubSeq(stream, 1, Len(stream) - 1))
    ELSE CourseFold(CourseStart, SubSeq(stream, 1, Len(stream) - 1))

EntitiesBefore == StateBefore.list

ContextBefore == StateBefore.department

\* the last fragment carries an entity-opening tag
Opening == LastFragment.semantic_types \cap OpenTags # {}

\* the last fragment carries the department tag or a department keyword
Departmental ==
    "department" \in LastFragment.semantic_types \/ MentionsKhoa(LastFragment.text)

IsPrefix(s, t) == Len(s) <= Len(t) /\ SubSeq(t, 1, Len(s)) = s

\* C25: a fragment with the department tag sets the current department to
\* its (trimmed) text and backfills the entities without a department, also
\* when it carries an entity-opening tag
C25_DepartmentTagAlwaysSets ==
    (Extracted /\ "department" \in LastFragment.semantic_types)
        => /\ ret.context = Strip(LastFragment.text)
           /\ \A k \in DOMAIN EntitiesBefore :
                EntitiesBefore[k].department = ""
                    => ret.entities[k].department = Strip(LastFragment.text)

\* the name (faculty) or code and name (course) the fragment opens an entity with
OpenedAs(entity) ==
    IF ret.call = "extract_faculty_info"
    THEN entity.name = Strip(LastFragment.text)
    ELSE /\ entity.code = CourseCode(LastFragment.text)
         /\ entity.name = CourseName(LastFragment.text)

\* C26: a fragment with an entity-opening tag appends exactly one entity,
\* seeded with the current department, and leaves the entities before it in
\* place; another fragment appends and removes nothing; the list has as many
\* entities as the stream has opening fragments
C26_OpeningAppendsOne ==
    Extracted
        => /\ Len(ret.entities) = Cardinality(OpenPlaces)
           /\ Opening
                => /\ Len(ret.entities) = Len(EntitiesBefore) + 1
                   /\ SubSeq(ret.entities, 1, Len(EntitiesBefore)) = EntitiesBefore
                   /\ ret.entities[Len(ret.entities)].department = ContextBefore
                   /\ OpenedAs(ret.entities[Len(ret.entities)])
           /\ ~Opening => Len(ret.entities) = Len(EntitiesBefore)

\* a faculty, a department, a second faculty: the second is opened with the
\* department, the first is still in the list with no attribute but the
\* department it was given
C26_Witness ==
    /\ ret.call = "extract_faculty_info"
    /\ Len(stream) = 3
    /\ OpenPlaces = {1, 3}
    /\ ContextBefore = "CS"
    /\ Len(ret.entities) = 2
    /\ ret.entities[2].department = "CS"
    /\ ret.entities[1].title = "" /\ ret.entities[1].email = ""

\* the last fragment reaches the email rule of the faculty reconstructor
\* with an entity open and a token holding '@' and '.'
UpdatesEmail ==
    /\ ret.call = "extract_faculty_info"
    /\ ~Opening /\ ~Departmental
    /\ EntitiesBefore # <<>>
    /\ ~("title" \in LastFragment.semantic_types \/ MentionsTitle(LastFragment.text))
    /\ {"research_interest", "research"} \cap LastFragment.semantic_types = {}
    /\ "email" \in LastFragment.semantic_types \/ HasAt(LastFragment.text)
    /\ EmailWords(LastFragment.text) # <<>>

\* C27: the email stored is the first token of the text holding '@' and '.'
C27_FirstEmailToken ==
    UpdatesEmail => ret.entities[Len(ret.entities)].email = EmailWords(LastFragment.text)[1]

\* the list-valued attributes of an entity of the extraction
ListAttributes ==
    IF ret.call = "extract_faculty_info" THEN {"research_interests"}
    ELSE {"instructors", "prerequisites"}

\* C28: each list-valued attribute of each entity extends the value it had
\* before the last fragment
C28_ListsOnlyGrow ==
    Extracted
        => \A k \in DOMAIN EntitiesBefore : \A a \in ListAttributes :
              /\ k \in DOMAIN ret.entities
              /\ IsPrefix(EntitiesBefore[k][a].items, ret.entities[k][a].items)

\* a second, different research interest was added to the first
C28_Witness ==
    /\ ret.call = "extract_faculty_info"
    /\ Len(EntitiesBefore) = 1
    /\ EntitiesBefore[1].research_interests.items = <<"AI">>
    /\ ret.entities[1].research_interests.items = <<"AI", "ML">>

\* no attribute rule of the reconstructor matches the last fragment
NoAttributeRule ==
    LET text  == LastFragment.text
        types == LastFragment.semantic_types
    IN  IF ret.call = "extract_faculty_info"
        THEN /\ {"title", "research_interest", "research", "email", "phone"} \cap types = {}
             /\ ~MentionsTitle(text) /\ ~HasAt(text) /\ ~MentionsPhone(text)
        ELSE /\ {"course_description", "description", "credits", "instructor",
                 "prerequisite"} \cap types = {}
             /\ ~MentionsCredit(text) /\ ~MentionsLecturer(text) /\ ~MentionsPrerequisite(text)

ChangedAttributes(before, after) == {a \in DOMAIN before : before[a] # after[a]}

\* C29: a fragment that neither opens an entity nor is a department fragment
\* (department tag or department keyword in its text) leaves the current department and every entity but the last one as they
\* were, changes at most one attribute of the last one, and changes nothing
\* when no entity is open or no attribute rule matches
C29_OneAttributeOfOpenEntity ==
    (Extracted /\ ~Opening /\ ~Departmental)
        => /\ ret.context = ContextBefore
           /\ Len(ret.entities) = Len(EntitiesBefore)
           /\ \A k \in 1..(Len(EntitiesBefore) - 1) : ret.entities[k] = EntitiesBefore[k]
           /\ EntitiesBefore # <<>>
                => Cardinality(ChangedAttributes(EntitiesBefore[Len(EntitiesBefore)],
                                                 ret.entities[Len(ret.entities)])) <= 1
           /\ NoAttributeRule => ret.entities = EntitiesBefore

\* with two faculty entities in the list a title fragment changed the title
\* of the second and nothing else
C29_Witness ==
    /\ ret.call = "extract_faculty_info"
    /\ ~Opening /\ ~Departmental
    /\ Len(EntitiesBefore) = 2
    /\ ret.entities[1] = EntitiesBefore[1]
    /\ ChangedAttributes(EntitiesBefore[2], ret.entities[2]) = {"title"}

\* the course record read last and the operations process returned for it:
\* those after the operations of the records before it
LastCourse == stream[Len(stream)]

CourseOperations ==
    SubSeq(ret.ops,
           Len(CourseProcess(OkList(SubSeq(stream, 1, Len(stream) - 1))).ops) + 1,
           Len(ret.ops))

CodeElseName(course) == IF course.code # "" THEN course.code ELSE course.name

\* the relationship has the Course with this name property at one of its ends
CourseEndpoint(op, value) ==
    \/ /\ op.query.from_label = "Course"
       /\ op.query.from_property = "name"
       /\ op.params.from_value = value
    \/ /\ op.query.to_label = "Course"
       /\ op.query.to_property = "name"
       /\ op.params.to_value = value

\* C30: a course record is identified by its code, or by its name when the
\* code is empty: its operations start with the upsert of the Course with
\* that identifier as name property, each of its relationships has that
\* Course at one end, and the upsert sets the title (to the record's name)
\* exactly when code and name are both non-empty; a record with neither has
\* no operations
C30_IdentifiedByCodeElseName ==
    ret.call = "process_course"
        => IF CodeElseName(LastCourse) = ""
           THEN CourseOperations = <<>>
           ELSE /\ CourseOperations # <<>>
                /\ Upserts(CourseOperations[1], "Course", "name", CodeElseName(LastCourse))
                /\ ("title" \in Range(CourseOperations[1].query.sets))
                       <=> (LastCourse.code # "" /\ LastCourse.name # "")
                /\ ("title" \in Range(CourseOperations[1].query.sets))
                       => CourseOperations[1].params.title = LastCourse.name
                /\ (\E k \in DOMAIN CourseOperations : IsRelOp(CourseOperations[k]))
                       <=> (\/ LastCourse.department # ""
                            \/ \E i \in DOMAIN LastCourse.instructors.items :
                                  LastCourse.instructors.items[i] # ""
                            \/ \E i \in DOMAIN LastCourse.prerequisites.items :
                                  LastCourse.prerequisites.items[i] # "")
                /\ \A k \in DOMAIN CourseOperations :
                       IsRelOp(CourseOperations[k])
                           => CourseEndpoint(CourseOperations[k], CodeElseName(LastCourse))

\* after a course with code and name (keyed by the code, the name as title)
\* and a record without either, a course with a name only is keyed by the
\* name, has no title, and its prerequisite link ends at that name
C30_Witness ==
    /\ ret.call = "process_course"
    /\ stream = <<CS101, NoIdentifier, Algorithms>>
    /\ Upserts(ret.ops[1], "Course", "name", "CS101")
    /\ ret.ops[1].params.title = "Intro"
    /\ Len(CourseOperations) = 3
    /\ Upserts(CourseOperations[1], "Course", "name", "Algorithms")
    /\ "title" \notin Range(CourseOperations[1].query.sets)
    /\ CourseOperations[3].params.to_value = "Algorithms"

\* the department read last and the operations process returned for it:
\* those after the operations of the departments before it
LastDepartment == stream[Len(stream)]

ContactOperations ==
    SubSeq(ret.ops,
           Len(ContactProcess(OkDepartments(SubSeq(stream, 1, Len(stream) - 1))).ops) + 1,
           Len(ret.ops))

\* the HAS_EMAIL relationships among the operations, in order
HasEmailLinks(ops) ==
    SelectSeq(ops, LAMBDA op : IsRelOp(op) /\ op.query.type = "HAS_EMAIL")

\* the operation mentions the value as a parameter
Mentions(op, value) == \E k \in DOMAIN op.params : op.params[k] = value

\* C31: the name and email extraction runs only for a department whose name
\* has more than 100 characters; then the i-th email found is linked by
\* HAS_EMAIL to the i-th name found, there are min(names, emails) such
\* links, and an email beyond the number of names is in no operation
C31_HeuristicPairsByPosition ==
    ret.call = "process_contact"
        => LET dept_name == LastDepartment.name
               names     == FacultyMatches(dept_name)
               emails    == EmailMatches(dept_name)
               links     == HasEmailLinks(ContactOperations)
               paired    == IF Len(names) < Len(emails) THEN Len(names) ELSE Len(emails)
           IN  IF Len(dept_name) > 100
               THEN /\ Len(links) = paired
                    /\ \A i \in 1..paired :
                          /\ links[i].query.from_label = "Faculty"
                          /\ links[i].params.from_value = names[i]
                          /\ links[i].query.to_label = "Email"
                          /\ links[i].params.to_value = emails[i]
                    /\ \A i \in (paired + 1)..Len(emails) :
                          \A k \in DOMAIN ContactOperations :
                              ~Mentions(ContactOperations[k], emails[i])
               ELSE \A k \in DOMAIN ContactOperations :
                       /\ IsNodeOp(ContactOperations[k])
                            => ContactOperations[k].query.label # "Faculty"
                       /\ IsRelOp(ContactOperations[k])
                            => /\ ContactOperations[k].query.type # "HAS_EMAIL"
                               /\ ContactOperations[k].query.from_label # "Faculty"
                               /\ ContactOperations[k].query.to_label # "Faculty"

\* a name of 137 characters with three names and four emails: three links,
\* the second from the second name to the second email, the fourth email
\* nowhere
C31_Witness ==
    /\ ret.call = "process_contact"
    /\ Len(stream) = 2
    /\ LastDepartment.name = LongDeptText
    /\ Len(HasEmailLinks(ContactOperations)) = 3
    /\ HasEmailLinks(ContactOperations)[2].params.from_value = "Dr Nguyen Van"
    /\ HasEmailLinks(ContactOperations)[2].params.to_value = "binh.tt@uit.edu.vn"
    /\ \A k \in DOMAIN ret.ops : ~Mentions(ret.ops[k], "extra@uit.edu.vn")

\* the step is a create_node or create_relationship call that returned
CreateReturned ==
    /\ hist'.calls = hist.calls + 1
    /\ last'.call \in {"create_node", "create_relationship"}
    /\ ~last'.raised

\* C32: a create_node or create_relationship call that returns leaves the
\* queue as it was with exactly one operation, the one the call composed,
\* added at its end
C32_AppendsOneAtEnd ==
    [][CreateReturned
          => /\ Len(queries') = Len(queries) + 1
             /\ SubSeq(queries', 1, Len(queries)) = queries
             /\ IF last'.call = "create_node"
                THEN IsNodeOp(queries'[Len(queries')])
                ELSE IsRelOp(queries'[Len(queries')])]_vars

\* create_relationship returned on a queue holding one upsert: the upsert is
\* still first and the relationship is second
C32_Witness ==
    /\ last.call = "create_relationship"
    /\ Len(last.pre_queries) = 1
    /\ IsNodeOp(last.pre_queries[1])
    /\ Len(queries) = 2
    /\ queries[1] = last.pre_queries[1]
    /\ IsRelOp(queries[2])

\* a processor returned its batch
Processed ==
    ret.call \in {"process", "process_course", "process_contact", "process_faculty_items",
                  "process_course_items", "process_general"}

\* applied in order to the store, each relationship of the batch finds both
\* its endpoints
RECURSIVE NoRelationshipSkipped(_, _)
NoRelationshipSkipped(st, batch) ==
    \/ batch = <<>>
    \/ /\ IsRelOp(Head(batch))
            => /\ MatchNodes(st, Head(batch).query.from_label, Head(batch).query.from_property,
                             Head(batch).params.from_value) # {}
               /\ MatchNodes(st, Head(batch).query.to_label, Head(batch).query.to_property,
                             Head(batch).params.to_value) # {}
       /\ NoRelationshipSkipped(Apply(st, Head(batch)), Tail(batch))

\* C33: in the batch a processor returns each relationship comes after an
\* upsert of its from-endpoint and an upsert of its to-endpoint (same label,
\* key and value), and applied in order to an empty store no relationship of
\* the batch is skipped
C33_EndpointsBeforeEdges ==
    Processed => EndpointsFirst(ret.ops) /\ NoRelationshipSkipped(EmptyStore, ret.ops)

\* the course processor returned, for a record with a prerequisite, the
\* upsert of the prerequisite course before the link from it
C33_Witness ==
    /\ ret.call = "process_course"
    /\ stream = <<Algorithms>>
    /\ Len(ret.ops) = 3
    /\ Upserts(ret.ops[2], "Course", "name", "CS101")
    /\ IsRelOp(ret.ops[3])
    /\ ret.ops[3].params.from_value = "CS101"

\* C34: the list a process call returned holds, whatever is called later,
\* what it held when it was returned
C34_ReturnedListIsSnapshot ==
    hist.held.taken => hist.held.object = hist.held.snapshot

\* C35: after execute returned on a queue that was not empty, the queue is
\* empty and every operation it held was attempted against the store
C35_ExecutedBeforeDiscarded ==
    (last.call = "execute" /\ last.batch # <<>>)
        => /\ queries = <<>>
           /\ last.attempted

\* C36: a build_knowledge_graph(execute=True) on a batch that is not empty,
\* ending without a usable connection, returns 0, has attempted no operation
\* and leaves the accumulated batch as it was
C36_NoConnectionKeepsBatch ==
    (last.call = "build_execute" /\ last.batch # <<>> /\ driver # "open")
        => /\ ret.count = 0
           /\ ~last.attempted
           /\ all_queries = last.pre_all

\* the name values the University node upserts and the University endpoints
\* of the relationships of a batch carry
UniversityNames(batch) ==
    {batch[i].params[batch[i].query.pk] :
        i \in {j \in DOMAIN batch : IsNodeOp(batch[j]) /\ batch[j].query.label = "University"}}
    \cup {batch[i].params.from_value :
        i \in {j \in DOMAIN batch : IsRelOp(batch[j]) /\ batch[j].query.from_label = "University"}}
    \cup {batch[i].params.to_value :
        i \in {j \in DOMAIN batch : IsRelOp(batch[j]) /\ batch[j].query.to_label = "University"}}

\* C37: in the accumulated batch of one KnowledgeGraph every University node
\* upsert and University endpoint carries the same name value
C37_SingleUniversity == Cardinality(UniversityNames(all_queries)) <= 1

\* the store holds at most one node for the label, key property and key
\* value of each node upsert of the batch
NodesUnique(st, batch) ==
    \A i \in DOMAIN batch :
        IsNodeOp(batch[i])
        => Cardinality(MatchNodes(st, batch[i].query.label, batch[i].query.pk,
                                  batch[i].params[batch[i].query.pk])) <= 1

\* no two edges of the store agree in from node, type, properties and to node
EdgesUnique(st) ==
    \A i, j \in DOMAIN st.edges : st.edges[i] = st.edges[j] => i = j

C39_DepartmentSetOnce ==
    Extracted
        => \A k \in DOMAIN EntitiesBefore :
              /\ k \in DOMAIN ret.entities
              /\ EntitiesBefore[k].department # ""
                    => ret.entities[k].department = EntitiesBefore[k].department

\* a faculty entity opened under one department kept it when a fragment
\* set another current department
C39_Witness ==
    /\ ret.call = "extract_faculty_info"
    /\ Departmental
    /\ Len(EntitiesBefore) = 1
    /\ EntitiesBefore[1].department = "CS"
    /\ ret.context = "UIT"
    /\ ret.entities[1].department = "CS"

\* the elements filter_and_categorize_elements was given
Filtered == [i \in DOMAIN stream |-> ExtractEnhancedElementData(stream[i])]

\* the categories whose list holds the element at place i
CategoriesOf(i) == {tag \in SemanticTypes : i \in Range(ret.categorized[tag])}

\* fewer than two words and no extracted patterns
ShortAndBare(element) == element.word_count < 2 /\ element.regex_patterns = {}

\* tagged navigation or page_structure, and neither emails nor
\* phone_numbers among its patterns
StructuralWithoutContact(element) ==
    /\ "navigation" \in Range(element.semantic_types)
          \/ "page_structure" \in Range(element.semantic_types)
    /\ "emails" \notin element.regex_patterns
    /\ "phone_numbers" \notin element.regex_patterns

\* C40: filter_and_categorize_elements lists an element only under its own
\* semantic types, and lists a short element without patterns, or a
\* navigation or page_structure element without emails and phone numbers,
\* under no category at all
C40_ListedOnlyUnderOwnTags ==
    ret.call = "filter"
        => \A i \in DOMAIN stream :
              /\ CategoriesOf(i) \subseteq Range(Filtered[i].semantic_types)
              /\ (ShortAndBare(Filtered[i]) \/ StructuralWithoutContact(Filtered[i]))
                    => CategoriesOf(i) = {}

\* a navigation element that is also tagged department is in no list, next
\* to a structural element with an email that is in the lists of its tags
C40_Witness ==
    /\ ret.call = "filter"
    /\ \E i, j \in DOMAIN stream :
          /\ Range(Filtered[i].semantic_types) = {"department", "navigation"}
          /\ StructuralWithoutContact(Filtered[i])
          /\ CategoriesOf(i) = {}
          /\ "page_structure" \in Range(Filtered[j].semantic_types)
          /\ CategoriesOf(j) = Range(Filtered[j].semantic_types)
====
